---- MODULE Spec2Model ----
(***************************************************************************)
(* Model of the React code quality analyzer:                               *)
(*   - utils/filterUtils.ts          IssueFilterManager                    *)
(*   - components/EnhancedSyntaxAnalyzer.tsx                               *)
(*   - utils/analyzer.ts             ReactCodeAnalyzer                     *)
(*   - types/index.ts                EnhancedSemanticAnalyzer              *)
(*   - components/CodeAnalyzer.tsx   combined ReactCodeAnalyzer            *)
(*                                                                         *)
(* A JavaScript string is modelled as a sequence of one-character strings, *)
(* so that indexOf, includes, trim, split and toLowerCase are computed     *)
(* rather than assumed.                                                    *)
(***************************************************************************)
EXTENDS Naturals, Integers, Sequences, FiniteSets, TLC

VARIABLES
    allIssues,       \* AnalysisResultsSection: currentResult.issues
    filters,         \* AnalysisResultsSection: the filters state
    filteredIssues,  \* AnalysisResultsSection: useMemo filteredIssues
    stats,           \* AnalysisResultsSection: useMemo stats
    code,            \* the text handed to an analyzer
    analyzed,        \* which analyzer produced `result` ("none" before a call)
    result,          \* the AnalysisResult of the last analyzer call
    context,         \* EnhancedSemanticAnalyzer: this.context
    scoring,         \* generateSemanticScore: its locals `issues` and `lines`
    analyzedFiles,   \* FileComparisonView: the analyzedFiles prop
    selectedFileA,   \* FileComparisonView: <<>> for null, <<index>> otherwise
    selectedFileB,   \* FileComparisonView: <<>> for null, <<index>> otherwise
    metricComparisons, \* FileComparisonView: useMemo metricComparisons
    calls,           \* the (analyzer, text) calls made so far on the exported instances
    scan,            \* checkBracketMatching in progress: position, stack, issues
    selectedFileIndex, \* CodeAnalyzer: useState selectedFileIndex
    isAnalyzing,     \* CodeAnalyzer: useState isAnalyzing
    notifications,   \* CodeAnalyzer: useState notifications, the one appended last
    pending,         \* CodeAnalyzer: the asynchronous handlers waiting to go on
    savedSessions    \* CodeAnalyzer: useState savedSessions

filterVars == <<allIssues, filters, filteredIssues, stats>>
analysisVars == <<code, analyzed, result, context>>
scoreVars == <<scoring>>
compareVars == <<analyzedFiles, selectedFileA, selectedFileB, metricComparisons>>
historyVars == <<calls>>
scanVars == <<scan>>
uiVars == <<selectedFileIndex, isAnalyzing, notifications, pending, savedSessions>>

vars == <<filterVars, analysisVars, scoreVars, compareVars, historyVars, scanVars, uiVars>>

\* the CodeAnalyzer component as it is mounted, apart from analyzedFiles
NoUI ==
    /\ selectedFileIndex = -1
    /\ isAnalyzing = FALSE
    /\ notifications = <<>>
    /\ pending = <<>>
    /\ savedSessions = <<>>

\* no scan of checkBracketMatching in progress
NoScan == [at |-> "idle", lineIndex |-> 0, charIndex |-> 0, stack |-> <<>>, issues |-> <<>>]

(***************************************************************************)
(* Bounds                                                                  *)
(***************************************************************************)
MaxIssues == 2       \* length of the issue lists handed to the filter
MaxTermLen == 2      \* length of the search terms typed into the filter
MaxLen == 3          \* length of the texts over all of CodeChars
MaxBracketLen == 4   \* length of the texts of brackets and line breaks
MaxRepeat == 20      \* copies of a unit in a repetitive text
MaxCount == 21       \* issues of one category in a scored issue list
MaxBranchLines == 20 \* branching lines in a scored text
MaxTokens == 4       \* tokens of a text of WordTexts
MaxFiles == 3        \* analyzed files handed to the comparison view
MaxCalls == 2        \* calls made in a row on the exported instances
MaxScanLen == 3      \* characters of a line handed to the bracket scan
MaxBatch == 2        \* files handed over by one browse or drop
MaxPending == 2      \* asynchronous handlers of CodeAnalyzer waiting at once
MaxListed == 2       \* files the uploads under way may bring the list to
MaxSessions == 1     \* saved sessions

(***************************************************************************)
(* JavaScript string primitives                                            *)
(***************************************************************************)
\* The value a turn of a loop has left is computed when the next turn starts,
\* as in the source, and not put off until the loop has ended.
Computed(v) == v = v

Max(a, b) == IF a >= b THEN a ELSE b
Min(a, b) == IF a <= b THEN a ELSE b

\* String.prototype.toLowerCase, on the letters the model uses
LowerChar(c) ==
    CASE c = "A" -> "a"
      [] c = "B" -> "b"
      [] c = "J" -> "j"
      [] c = "S" -> "s"
      [] OTHER -> c

toLowerCase(s) == [i \in 1..Len(s) |-> LowerChar(s[i])]

\* White space as String.prototype.trim sees it (blank; the line feed too)
IsSpace(c) == c \in {" ", "\n"}

RECURSIVE trimStart(_)
trimStart(s) ==
    IF s # <<>> /\ IsSpace(Head(s)) THEN trimStart(Tail(s)) ELSE s

RECURSIVE trimEnd(_)
trimEnd(s) ==
    IF s # <<>> /\ IsSpace(s[Len(s)]) THEN trimEnd(SubSeq(s, 1, Len(s) - 1)) ELSE s

trim(s) == trimEnd(trimStart(s))

\* t occurs in s at the 1-based position i
StartsAt(s, i, t) ==
    i + Len(t) - 1 <= Len(s) /\ SubSeq(s, i, i + Len(t) - 1) = t

\* String.prototype.includes
includes(s, t) ==
    \E k \in 0..(Len(s) - Len(t)) : SubSeq(s, k + 1, k + Len(t)) = t

(***************************************************************************)
(* utils/filterUtils.ts: IssueFilterManager                                *)
(*                                                                         *)
(* An issue handed to the filter is a CodeIssue whose text fields are      *)
(* strings over the letters a, A, b, B and the blank.  The optional        *)
(* `suggestion` is <<>> when absent and <<text>> when present.             *)
(***************************************************************************)
Severities == {"error", "warning", "info"}

IssuePool ==
    { [id |-> 1, type |-> "error",   category |-> <<"A">>, message |-> <<"b">>,
       rule |-> <<"b">>, suggestion |-> <<>>],
      [id |-> 2, type |-> "warning", category |-> <<"b">>, message |-> <<"b", "A">>,
       rule |-> <<"b">>, suggestion |-> << <<"b", " ">> >>],
      [id |-> 3, type |-> "info",    category |-> <<"b">>, message |-> <<"b">>,
       rule |-> <<"a", "B">>, suggestion |-> << <<"b">> >>],
      [id |-> 4, type |-> "info",    category |-> <<"A">>, message |-> <<"b">>,
       rule |-> <<"b">>, suggestion |-> << <<"A", "a">> >>],
      [id |-> 5, type |-> "error",   category |-> <<"b">>, message |-> <<"B">>,
       rule |-> <<"b">>, suggestion |-> <<>>] }

PoolCategories == {i.category : i \in IssuePool}

\* the characters a user types into the search box
TermChars == {"a", "A", " "}

RECURSIVE SeqsUpTo(_, _)
SeqsUpTo(S, n) ==
    IF n = 0 THEN {<<>>}
    ELSE LET shorter == SeqsUpTo(S, n - 1)
         IN  shorter \cup {Append(s, x) : s \in shorter, x \in S}

\* matchesSearchTerm as a case-sensitive comparison of the fields
matchesSearchTerm_CaseSensitive(issue, searchTerm) ==
    IF trim(searchTerm) = <<>> THEN TRUE
    ELSE \/ includes(issue.message, searchTerm)
         \/ includes(issue.category, searchTerm)
         \/ includes(issue.rule, searchTerm)
         \/ (IF issue.suggestion = <<>> THEN FALSE
             ELSE includes(issue.suggestion[1], searchTerm))

matchesSearchTerm(issue, searchTerm) ==
    IF trim(searchTerm) = <<>> THEN TRUE
    ELSE LET term == toLowerCase(searchTerm)
         IN  \/ includes(toLowerCase(issue.message), term)
             \/ includes(toLowerCase(issue.category), term)
             \/ includes(toLowerCase(issue.rule), term)
             \/ (IF issue.suggestion = <<>> THEN FALSE
                 ELSE includes(toLowerCase(issue.suggestion[1]), term))

\* filterIssues losing the first match (an off-by-one in the result)
filterIssues_SkipFirst(issues, f) ==
    LET keep(issue) ==
            /\ (f.severity = {} \/ issue.type \in f.severity)
            /\ (f.categories = {} \/ issue.category \in f.categories)
            /\ matchesSearchTerm(issue, f.searchTerm)
        kept == SelectSeq(issues, keep)
    IN  IF kept = <<>> THEN kept ELSE Tail(kept)

filterIssues(issues, f) ==
    LET keep(issue) ==
            LET matchesSeverity == f.severity = {} \/ issue.type \in f.severity
                matchesCategory == f.categories = {} \/ issue.category \in f.categories
                matchesSearch == matchesSearchTerm(issue, f.searchTerm)
            IN  matchesSeverity /\ matchesCategory /\ matchesSearch
    IN  SelectSeq(issues, keep)

\* byCategory: the Map built by allIssues.forEach, one entry per category seen
RECURSIVE CountByCategory(_, _)
CountByCategory(issues, byCategory) ==
    IF issues = <<>> THEN byCategory
    ELSE LET c == Head(issues).category
             count == IF c \in DOMAIN byCategory THEN byCategory[c] ELSE 0
         IN  CountByCategory(Tail(issues),
                 [k \in DOMAIN byCategory \cup {c} |->
                     IF k = c THEN count + 1 ELSE byCategory[k]])

EmptyMap == [k \in {} |-> 0]

\* getFilterStats counting the severities of the filtered list
getFilterStats_FromFiltered(all, filtered) ==
    LET isType(t) == LET p(i) == i.type = t IN Len(SelectSeq(filtered, p))
    IN  [ totalIssues |-> Len(all),
          filteredIssues |-> Len(filtered),
          bySeverity |-> [error |-> isType("error"), warning |-> isType("warning"),
                          info |-> isType("info")],
          byCategory |-> CountByCategory(all, EmptyMap) ]

getFilterStats(all, filtered) ==
    LET isType(t) == LET p(i) == i.type = t IN Len(SelectSeq(all, p))
    IN  [ totalIssues |-> Len(all),
          filteredIssues |-> Len(filtered),
          bySeverity |-> [error |-> isType("error"), warning |-> isType("warning"),
                          info |-> isType("info")],
          byCategory |-> CountByCategory(all, EmptyMap) ]

\* createDefaultFilters leaving one severity out
createDefaultFilters_NoInfo ==
    [severity |-> {"error", "warning"}, categories |-> {}, searchTerm |-> <<>>]

createDefaultFilters ==
    [severity |-> {"error", "warning", "info"}, categories |-> {}, searchTerm |-> <<>>]

clearFilters == createDefaultFilters

(***************************************************************************)
(* AnalysisResultsSection / IssueFilterPanel: the filter state and its     *)
(* handlers.  filteredIssues and stats are useMemo values, recomputed in   *)
(* the render that follows every change of the filters.                    *)
(***************************************************************************)
Render(f) ==
    /\ filters' = f
    /\ filteredIssues' = filterIssues(allIssues, f)
    /\ stats' = getFilterStats(allIssues, filterIssues(allIssues, f))
    /\ UNCHANGED <<allIssues, analysisVars, scoreVars, compareVars, historyVars, scanVars, uiVars>>

handleSeverityToggle(severity) ==
    Render([filters EXCEPT !.severity =
                IF severity \in @ THEN @ \ {severity} ELSE @ \cup {severity}])

handleCategoryToggle(category) ==
    Render([filters EXCEPT !.categories =
                IF category \in @ THEN @ \ {category} ELSE @ \cup {category}])

\* the search box reports the whole new text on every keystroke
handleSearchChange(searchTerm) ==
    Render([filters EXCEPT !.searchTerm = searchTerm])

handleClearFilters == Render(createDefaultFilters)

(***************************************************************************)
(* Source text.  `code` is a string; split("\n") gives its lines.          *)
(***************************************************************************)
NL == "\n"
\* the back-quote character (it cannot be written inside a TLA+ string)
Backtick == "backtick"

RECURSIVE SplitFrom(_, _, _)
SplitFrom(s, i, cur) ==
    IF i > Len(s) THEN <<cur>>
    ELSE IF s[i] = NL THEN <<cur>> \o SplitFrom(s, i + 1, <<>>)
    ELSE SplitFrom(s, i + 1, Append(cur, s[i]))

\* code.split('\n')
split(s) == SplitFrom(s, 1, <<>>)

\* String.prototype.indexOf, 0-based, -1 when absent
indexOf(s, t) ==
    IF includes(s, t)
    THEN CHOOSE k \in 0..(Len(s) - Len(t)) :
            /\ SubSeq(s, k + 1, k + Len(t)) = t
            /\ \A j \in 0..(k - 1) : SubSeq(s, j + 1, j + Len(t)) # t
    ELSE -1

\* number of occurrences of the character c in s: (s.match(/c/g) || []).length
CountChar(s, c) == Cardinality({i \in 1..Len(s) : s[i] = c})

\* A string built by a template literal, kept as its parts: the texts and the
\* numbers interpolated into them.  Two such strings are equal exactly when
\* their parts are.
Tmpl(text, nums) == [text |-> text, nums |-> nums]
Lit(text) == Tmpl(<<text>>, <<>>)

\* \s of a regular expression
IsBlank(c) == c \in {" ", "\t", "\n", "\r"}

\* the positions p >= i such that line[i..p-1] is white space only: where
\* the match can stand after \s* has consumed from position i
AfterBlanks(line, i) ==
    {p \in i..(Len(line) + 1) : \A q \in i..(p - 1) : IsBlank(line[q])}

\* line.search(pattern) for a pattern given by the set of its 1-based match
\* starts: the 0-based index of the leftmost match, -1 when there is none
search(starts) ==
    IF starts = {} THEN -1 ELSE (CHOOSE i \in starts : \A j \in starts : i <= j) - 1

(***************************************************************************)
(* components/EnhancedSyntaxAnalyzer.tsx                                   *)
(***************************************************************************)
createSyntaxIssue(id, type, category, message, line, column, rule, suggestion) ==
    [id |-> id, type |-> type, category |-> category, message |-> message,
     line |-> line, column |-> column, rule |-> rule, suggestion |-> suggestion]

\* the bracketPairs literal of checkBracketMatching
bracketPairs ==
    << [open |-> "{", close |-> "}", name |-> "curly brace"],
       [open |-> "[", close |-> "]", name |-> "square bracket"],
       [open |-> "(", close |-> ")", name |-> "parenthesis"] >>

\* bracketPairs.find(p => p.open === symbol): <<>> when there is none
FindPairByOpen(symbol) ==
    LET hits == {k \in 1..Len(bracketPairs) : bracketPairs[k].open = symbol}
    IN  IF hits = {} THEN <<>>
        ELSE << bracketPairs[CHOOSE k \in hits : \A j \in hits : k <= j] >>

\* A line read as a lexer reads it: the state after the first k characters.
\* A quote opens a string that the same quote closes, // opens a comment
\* up to the end of the line, /* one that */ closes.  "slash" and "star"
\* are the states after a / in code and after a * in a block comment.
RECURSIVE LexState(_, _)
LexState(line, k) ==
    IF k = 0 THEN "code"
    ELSE LET before == LexState(line, k - 1)
             c == line[k]
         IN  CASE before \in {"code", "slash"} ->
                    (CASE c = "'" -> "single"
                       [] c = "\"" -> "double"
                       [] c = Backtick -> "backtick"
                       [] c = "/" -> IF before = "slash" THEN "line" ELSE "slash"
                       [] c = "*" -> IF before = "slash" THEN "block" ELSE "code"
                       [] OTHER -> "code")
               [] before = "single" -> IF c = "'" THEN "code" ELSE "single"
               [] before = "double" -> IF c = "\"" THEN "code" ELSE "double"
               [] before = "backtick" -> IF c = Backtick THEN "code" ELSE "backtick"
               [] before = "line" -> "line"
               [] before = "block" -> IF c = "*" THEN "star" ELSE "block"
               [] before = "star" ->
                    IF c = "/" THEN "code" ELSE IF c = "*" THEN "star" ELSE "block"

\* the character at the 0-based index lies inside a string or a comment
LexedInside(line, index) ==
    LexState(line, index) \notin {"code", "slash"}

\* index is the 0-based charIndex of the source
isInsideString(line, index) ==
    LET beforeChar == SubSeq(line, 1, index)
        singleQuotes == CountChar(beforeChar, "'")
        doubleQuotes == CountChar(beforeChar, "\"")
        backticks == CountChar(beforeChar, Backtick)
    IN  (singleQuotes % 2 = 1) \/ (doubleQuotes % 2 = 1) \/ (backticks % 2 = 1)

isInsideComment(line, index) ==
    LET beforeChar == SubSeq(line, 1, index)
    IN  includes(beforeChar, <<"/", "/">>) \/ includes(beforeChar, <<"/", "*">>)

getContext(lines, lineIndex, charIndex) ==
    LET line == lines[lineIndex + 1]
        start == Max(0, charIndex - 20)
        end == Min(Len(line), charIndex + 20)
    IN  SubSeq(line, start + 1, end)

\* the body for one pair, leaving on the stack an opener that does not
\* match the closer
PairStep_KeepOnMismatch(st, pair, char, lines, lineIndex, charIndex) ==
    LET lineNum == lineIndex + 1
        column == charIndex + 1
    IN
    IF char = pair.open THEN
        [st EXCEPT !.stack = Append(@,
            [type |-> "open", symbol |-> char, line |-> lineNum, column |-> column,
             context |-> getContext(lines, lineIndex, charIndex)])]
    ELSE IF char = pair.close THEN
        IF Len(st.stack) = 0 THEN
            [st EXCEPT !.issues = Append(@, createSyntaxIssue(
                Tmpl(<<"unmatched-", pair.name, "-close-">>, <<lineNum>>),
                "error", "Syntax",
                Tmpl(<<"Unmatched closing ", pair.name>>, <<>>),
                lineNum, column, "syntax/bracket-matching",
                Tmpl(<<"Remove extra closing ", pair.name,
                       " or add matching opening ", pair.name>>, <<>>)))]
        ELSE
            LET lastOpen == st.stack[Len(st.stack)]
                found == FindPairByOpen(lastOpen.symbol)
                expectedClose == IF found = <<>> THEN "undefined" ELSE found[1].close
            IN  IF char # expectedClose THEN
                    [st EXCEPT !.issues = Append(@, createSyntaxIssue(
                        Tmpl(<<"mismatched-", pair.name, "-">>, <<lineNum>>),
                        "error", "Syntax",
                        Tmpl(<<"Mismatched ", pair.name, ": expected ", expectedClose,
                               " but found ", char>>, <<>>),
                        lineNum, column, "syntax/bracket-matching",
                        Tmpl(<<"Change ", char, " to ", expectedClose,
                               " to match opening ", lastOpen.symbol, " on line ">>,
                             <<lastOpen.line>>)))]
                ELSE [st EXCEPT !.stack = SubSeq(@, 1, Len(@) - 1)]
    ELSE st

\* the body of `for (const pair of bracketPairs)` for one pair;
\* st = [stack, issues]
PairStep(st, pair, char, lines, lineIndex, charIndex) ==
    LET lineNum == lineIndex + 1
        column == charIndex + 1
    IN
    IF char = pair.open THEN
        [st EXCEPT !.stack = Append(@,
            [type |-> "open", symbol |-> char, line |-> lineNum, column |-> column,
             context |-> getContext(lines, lineIndex, charIndex)])]
    ELSE IF char = pair.close THEN
        IF Len(st.stack) = 0 THEN
            [st EXCEPT !.issues = Append(@, createSyntaxIssue(
                Tmpl(<<"unmatched-", pair.name, "-close-">>, <<lineNum>>),
                "error", "Syntax",
                Tmpl(<<"Unmatched closing ", pair.name>>, <<>>),
                lineNum, column, "syntax/bracket-matching",
                Tmpl(<<"Remove extra closing ", pair.name,
                       " or add matching opening ", pair.name>>, <<>>)))]
        ELSE
            LET lastOpen == st.stack[Len(st.stack)]
                popped == [st EXCEPT !.stack = SubSeq(@, 1, Len(@) - 1)]
                found == FindPairByOpen(lastOpen.symbol)
                expectedClose == IF found = <<>> THEN "undefined" ELSE found[1].close
            IN  IF char # expectedClose THEN
                    [popped EXCEPT !.issues = Append(@, createSyntaxIssue(
                        Tmpl(<<"mismatched-", pair.name, "-">>, <<lineNum>>),
                        "error", "Syntax",
                        Tmpl(<<"Mismatched ", pair.name, ": expected ", expectedClose,
                               " but found ", char>>, <<>>),
                        lineNum, column, "syntax/bracket-matching",
                        Tmpl(<<"Change ", char, " to ", expectedClose,
                               " to match opening ", lastOpen.symbol, " on line ">>,
                             <<lastOpen.line>>)))]
                ELSE popped
    ELSE st

RECURSIVE PairLoop(_, _, _, _, _, _)
PairLoop(st, k, char, lines, lineIndex, charIndex) ==
    IF k > Len(bracketPairs) THEN st
    ELSE PairLoop(PairStep(st, bracketPairs[k], char, lines, lineIndex, charIndex),
                  k + 1, char, lines, lineIndex, charIndex)

IsUpper(c) ==
    c \in {"A", "B", "C", "D", "E", "F", "G", "H", "I", "J", "K", "L", "M",
           "N", "O", "P", "Q", "R", "S", "T", "U", "V", "W", "X", "Y", "Z"}

isInsideJSX(line, index) ==
    LET lineContent == trim(line)
    IN  IF \/ includes(lineContent, <<"f", "e", "t", "c", "h", "(">>)
           \/ includes(lineContent, <<"a", "p", "i", "/">>)
           \/ includes(lineContent, <<"a", "s", "y", "n", "c">>)
           \/ includes(lineContent, <<"a", "w", "a", "i", "t">>)
           \/ includes(lineContent, <<"t", "r", "y">>)
           \/ includes(lineContent, <<"c", "a", "t", "c", "h">>)
        THEN FALSE
        ELSE \/ \E i \in 1..(Len(line) - 1) : line[i] = "<" /\ IsUpper(line[i + 1])
             \/ \E i \in 1..(Len(line) - 5) :
                    /\ SubSeq(line, i, i + 5) = <<"r", "e", "t", "u", "r", "n">>
                    /\ \E p \in AfterBlanks(line, i + 6) : p <= Len(line) /\ line[p] = "<"
             \/ includes(line, <<"j", "s", "x">>)
             \/ includes(line, <<"t", "s", "x">>)

\* the body of `for (let charIndex ...)` reading the quotes as string
\* delimiters one after the other and the comments up to their end
CharStep_Lexed(st, lines, lineIndex, charIndex) ==
    LET line == lines[lineIndex + 1]
        char == line[charIndex + 1]
    IN  IF LexedInside(line, charIndex) THEN st
        ELSE IF (char = "<" \/ char = ">") /\ isInsideJSX(line, charIndex) THEN st
        ELSE PairLoop(st, 1, char, lines, lineIndex, charIndex)

\* the body of `for (let charIndex ...)`; charIndex is 0-based
CharStep(st, lines, lineIndex, charIndex) ==
    LET line == lines[lineIndex + 1]
        char == line[charIndex + 1]
    IN  IF isInsideString(line, charIndex) THEN st
        ELSE IF isInsideComment(line, charIndex) THEN st
        ELSE IF (char = "<" \/ char = ">") /\ isInsideJSX(line, charIndex) THEN st
        ELSE PairLoop(st, 1, char, lines, lineIndex, charIndex)

\* the loop `for (let charIndex ...)`
RECURSIVE CharLoop(_, _, _, _)
CharLoop(st, lines, lineIndex, charIndex) ==
    LET line == lines[lineIndex + 1]
    IN  IF charIndex >= Len(line) \/ ~Computed(st) THEN st
        ELSE CharLoop(CharStep(st, lines, lineIndex, charIndex),
                      lines, lineIndex, charIndex + 1)

RECURSIVE LineLoop(_, _, _)
LineLoop(st, lines, lineIndex) ==
    IF lineIndex >= Len(lines) \/ ~Computed(st) THEN st
    ELSE LineLoop(CharLoop(st, lines, lineIndex, 0), lines, lineIndex + 1)

\* stack.forEach(token => ...): one unclosed issue per token left on the stack
RECURSIVE UnclosedIssues(_, _)
UnclosedIssues(stack, k) ==
    IF k > Len(stack) THEN <<>>
    ELSE LET token == stack[k]
             pair == FindPairByOpen(token.symbol)
         IN  (IF pair # <<>> THEN
                 << createSyntaxIssue(
                      Tmpl(<<"unclosed-", pair[1].name, "-">>, <<token.line>>),
                      "error", "Syntax",
                      Tmpl(<<"Unclosed ", pair[1].name>>, <<>>),
                      token.line, token.column, "syntax/bracket-matching",
                      Tmpl(<<"Add closing ", pair[1].close, " to match opening ",
                             pair[1].open>>, <<>>)) >>
              ELSE <<>>) \o UnclosedIssues(stack, k + 1)

\* the stack left at the end of the scan
BracketScan(lines) == LineLoop([stack |-> <<>>, issues |-> <<>>], lines, 0)

\* UnclosedIssues reporting the position of the last opener for every token
checkBracketMatching_TopPosition(pcode, lines) ==
    LET st == BracketScan(lines)
        top == [k \in 1..Len(st.stack) |->
                   [st.stack[k] EXCEPT !.line = st.stack[Len(st.stack)].line,
                                       !.column = st.stack[Len(st.stack)].column]]
    IN  st.issues \o UnclosedIssues(top, 1)

\* checkBracketMatching forgetting the tokens left on the stack
checkBracketMatching_NoUnclosed(pcode, lines) == BracketScan(lines).issues

checkBracketMatching(pcode, lines) ==
    LET st == BracketScan(lines)
    IN  st.issues \o UnclosedIssues(st.stack, 1)

RECURSIVE Flatten(_)
Flatten(ss) == IF ss = <<>> THEN <<>> ELSE Head(ss) \o Flatten(Tail(ss))

\* lines.forEach((line, index) => issues.push(...)) for a per-line rule set:
\* perLine[i] holds the issues of line i, in the order they are pushed
ForEachLine(perLine) == Flatten(perLine)

IsLetter(c) ==
    \/ IsUpper(c)
    \/ c \in {"a", "b", "c", "d", "e", "f", "g", "h", "i", "j", "k", "l", "m",
              "n", "o", "p", "q", "r", "s", "t", "u", "v", "w", "x", "y", "z"}

IsDigit(c) == c \in {"0", "1", "2", "3", "4", "5", "6", "7", "8", "9"}

\* \w of a regular expression
IsWord(c) == IsLetter(c) \/ IsDigit(c) \/ c = "_"

\* match starts of /x\s*y(?!=)/
PairNotEq(line, x, y) ==
    {i \in 1..Len(line) :
        /\ line[i] = x
        /\ \E p \in AfterBlanks(line, i + 1) :
              /\ p <= Len(line)
              /\ line[p] = y
              /\ (p = Len(line) \/ line[p + 1] # "=")}

\* match starts of /c\s*c\s*c/
Triple(line, c) ==
    {i \in 1..Len(line) :
        /\ line[i] = c
        /\ \E p \in AfterBlanks(line, i + 1) :
              /\ p <= Len(line)
              /\ line[p] = c
              /\ \E q \in AfterBlanks(line, p + 1) : q <= Len(line) /\ line[q] = c}

\* the invalidOperators table of checkOperatorSyntax: pattern (as its match
\* starts in `line`), message, suggestion
invalidOperators(line) ==
    << [starts |-> PairNotEq(line, "=", "="), message |-> "Invalid assignment operator",
        suggestion |-> "Use === for comparison or = for assignment"],
       [starts |-> PairNotEq(line, "!", "="), message |-> "Invalid not-equals operator",
        suggestion |-> "Use !== for strict inequality"],
       [starts |-> Triple(line, "&"), message |-> "Invalid logical operator",
        suggestion |-> "Use && for logical AND"],
       [starts |-> Triple(line, "|"), message |-> "Invalid logical operator",
        suggestion |-> "Use || for logical OR"],
       [starts |-> Triple(line, "+"), message |-> "Invalid increment operator",
        suggestion |-> "Use ++ for increment"],
       [starts |-> Triple(line, "-"), message |-> "Invalid decrement operator",
        suggestion |-> "Use -- for decrement"] >>

\* The missing-operator rule of checkOperatorSyntax needs two words separated
\* by white space and then ; or }, on a line without '='.
checkOperatorSyntax(lines) ==
    ForEachLine([index \in 1..Len(lines) |->
        LET line == lines[index]
            lineNum == index
            table == invalidOperators(line)
        IN  Flatten([k \in 1..Len(table) |->
                IF table[k].starts # {} THEN
                    << createSyntaxIssue(
                         Tmpl(<<"invalid-operator-", "-">>, <<k - 1, lineNum>>),
                         "error", "Operators", Lit(table[k].message),
                         lineNum, search(table[k].starts),
                         "syntax/operators", Lit(table[k].suggestion)) >>
                ELSE <<>>])])

\* the symbolChecks table of checkSymbolSyntax
symbolChecks(line) ==
    << [starts |-> {i \in 1..(Len(line) - 1) : line[i] = "$" /\ line[i + 1] = "$"},
        message |-> "Double dollar sign",
        suggestion |-> "Use single $ for template literals"],
       [starts |-> {i \in 1..(Len(line) - 1) : line[i] = "#" /\ ~IsLetter(line[i + 1])},
        message |-> "Invalid hash usage",
        suggestion |-> "Hash symbol should be followed by identifier"],
       [starts |-> {i \in 1..Len(line) :
                       line[i] = "@" /\ (i = Len(line) \/ ~IsWord(line[i + 1]))},
        message |-> "Invalid at symbol usage",
        suggestion |-> "At symbol should be followed by identifier"],
       [starts |-> {i \in 1..Len(line) :
                       line[i] = Backtick /\ \A j \in (i + 1)..Len(line) : line[j] # Backtick},
        message |-> "Unclosed template literal",
        suggestion |-> "Add closing backtick"],
       [starts |-> {i \in 1..(Len(line) - 2) :
                       /\ SubSeq(line, i, i + 2) = <<".", ".", ".">>
                       /\ \E p \in AfterBlanks(line, i + 3) : p <= Len(line) /\ line[p] = "."},
        message |-> "Invalid spread operator",
        suggestion |-> "Use ... for spread operator"] >>

checkSymbolSyntax(lines) ==
    ForEachLine([index \in 1..Len(lines) |->
        LET line == lines[index]
            lineNum == index
            table == symbolChecks(line)
            doubleSemicolon ==
                \E i \in 1..Len(line) :
                    /\ line[i] = ";"
                    /\ \E p \in AfterBlanks(line, i + 1) : p <= Len(line) /\ line[p] = ";"
        IN  Flatten([k \in 1..Len(table) |->
                IF table[k].starts # {} THEN
                    << createSyntaxIssue(
                         Tmpl(<<"invalid-symbol-", "-">>, <<k - 1, lineNum>>),
                         "error", "Symbols", Lit(table[k].message),
                         lineNum, search(table[k].starts),
                         "syntax/symbols", Lit(table[k].suggestion)) >>
                ELSE <<>>])
            \o (IF doubleSemicolon THEN
                    << createSyntaxIssue(
                         Tmpl(<<"double-semicolon-">>, <<lineNum>>),
                         "warning", "Symbols", Lit("Double semicolon detected"),
                         lineNum, indexOf(line, <<";", ";">>),
                         "syntax/semicolon", Lit("Remove extra semicolon")) >>
                ELSE <<>>)])

\* for (const char of code): st = [maxNesting, currentNesting]
RECURSIVE NestingLoop(_, _, _)
NestingLoop(pcode, i, st) ==
    IF i > Len(pcode) \/ ~Computed(st) THEN st
    ELSE LET char == pcode[i]
         IN  NestingLoop(pcode, i + 1,
                IF char = "{" \/ char = "[" \/ char = "(" THEN
                    [currentNesting |-> st.currentNesting + 1,
                     maxNesting |-> Max(st.maxNesting, st.currentNesting + 1)]
                ELSE IF char = "}" \/ char = "]" \/ char = ")" THEN
                    [st EXCEPT !.currentNesting = Max(0, @ - 1)]
                ELSE st)

calculateMaxNesting(pcode) ==
    NestingLoop(pcode, 1, [maxNesting |-> 0, currentNesting |-> 0]).maxNesting

\* issues.filter(issue => issue.type === t).length
CountType(issues, t) == LET p(i) == i.type = t IN Len(SelectSeq(issues, p))

\* issues.filter(issue => issue.category === c).length
CountCategory(issues, c) == LET p(i) == i.category = c IN Len(SelectSeq(issues, p))

calculateSyntaxMetrics(pcode, issues) ==
    LET syntaxErrors == CountType(issues, "error")
        syntaxWarnings == CountType(issues, "warning")
        syntaxQuality == Max(1, 10 - (syntaxErrors * 2) - (syntaxWarnings \div 2))
        maxNesting == calculateMaxNesting(pcode)
        complexity == Min(10, Max(1, 10 - (maxNesting \div 3)))
        maintainability == Max(1, syntaxQuality - (Len(issues) \div 5))
        testability == Max(1, 10 - syntaxErrors)
    IN  [complexity |-> complexity, maintainability |-> maintainability,
         testability |-> testability, performance |-> 8]

\* generateSummary of EnhancedSyntaxAnalyzer
SyntaxGenerateSummary(issues) ==
    [errors |-> CountType(issues, "error"),
     warnings |-> CountType(issues, "warning"),
     info |-> CountType(issues, "info"),
     total |-> Len(issues)]

\* String.prototype.lastIndexOf
lastIndexOf(s, t) ==
    IF includes(s, t)
    THEN CHOOSE k \in 0..(Len(s) - Len(t)) :
            /\ SubSeq(s, k + 1, k + Len(t)) = t
            /\ \A j \in (k + 1)..(Len(s) - Len(t)) : SubSeq(s, j + 1, j + Len(t)) # t
    ELSE -1

\* /=(?!=)(?!>)\s*$/.test(s)
IncompleteAssignment(s) ==
    \E i \in 1..Len(s) :
        /\ s[i] = "="
        /\ i = Len(s) \/ s[i + 1] \notin {"=", ">"}
        /\ Len(s) + 1 \in AfterBlanks(s, i + 1)

\* /\w+\(\s*$/.test(s)
UnclosedCall(s) ==
    \E i \in 2..Len(s) :
        /\ s[i] = "("
        /\ IsWord(s[i - 1])
        /\ Len(s) + 1 \in AfterBlanks(s, i + 1)

\* checkJSSpecificSyntax: the incomplete-assignment and unclosed-function-call
\* rules; the others need a declaration keyword, '{' followed by two words,
\* or '['
checkJSSpecificSyntax(lines) ==
    ForEachLine([index \in 1..Len(lines) |->
        LET line == lines[index]
            lineNum == index
            trimmedLine == trim(line)
        IN  (IF IncompleteAssignment(trimmedLine) /\ ~includes(trimmedLine, <<"=", ">">>) THEN
                << createSyntaxIssue(Tmpl(<<"incomplete-assignment-">>, <<lineNum>>),
                     "error", "Syntax", Lit("Incomplete assignment statement"),
                     lineNum, indexOf(trimmedLine, <<"=">>), "syntax/assignment",
                     Lit("Complete the assignment with a value")) >>
             ELSE <<>>)
            \o (IF UnclosedCall(trimmedLine) THEN
                << createSyntaxIssue(Tmpl(<<"unclosed-function-call-">>, <<lineNum>>),
                     "error", "Syntax", Lit("Unclosed function call"),
                     lineNum, lastIndexOf(trimmedLine, <<"(">>), "syntax/function-call",
                     Lit("Add closing parenthesis ) to complete function call")) >>
             ELSE <<>>)])

\* /<[^>]+\w+\s*[^=>\s][^>]*>/.test(line): between a < and the next > there is,
\* after one character or more, a word character and, white space skipped,
\* a character that is none of = > and white space
InvalidJSXAttribute(line) ==
    \E i, j \in 1..Len(line) :
        /\ i < j
        /\ line[i] = "<"
        /\ line[j] = ">"
        /\ \A k \in (i + 1)..(j - 1) : line[k] # ">"
        /\ \E p \in (i + 2)..(j - 1) :
              /\ IsWord(line[p])
              /\ \E q \in AfterBlanks(line, p + 1) :
                    /\ q < j
                    /\ line[q] # "="
                    /\ ~IsBlank(line[q])

\* checkJSXSyntax: the attribute rule; the unclosed-tag rule needs a capital
\* after '<', the quotes rule a quote
checkJSXSyntax(lines) ==
    ForEachLine([index \in 1..Len(lines) |->
        LET line == lines[index]
            lineNum == index
        IN  IF InvalidJSXAttribute(line) THEN
                << createSyntaxIssue(Tmpl(<<"invalid-jsx-attribute-">>, <<lineNum>>),
                     "error", "JSX", Lit("Invalid JSX attribute syntax"),
                     lineNum, 0, "jsx/attribute-syntax",
                     Lit("JSX attributes must have format: attribute=\"value\" or attribute={value}")) >>
            ELSE <<>>])

\* checkSyntaxPatterns pushes nothing for a text of Texts or of WordTexts:
\* each of its patterns needs 'const', a quote, or '{' followed by two words.
analyzeSyntax(pcode) ==
    LET lines == split(pcode)
        issues == checkBracketMatching(pcode, lines)
                  \o checkJSSpecificSyntax(lines)
                  \o checkJSXSyntax(lines)
                  \o checkOperatorSyntax(lines)
                  \o checkSymbolSyntax(lines)
    IN  [issues |-> issues,
         metrics |-> calculateSyntaxMetrics(pcode, issues),
         summary |-> SyntaxGenerateSummary(issues)]

\* the string literals the rules search for
W_if == <<"i", "f">>
W_for == <<"f", "o", "r">>
W_while == <<"w", "h", "i", "l", "e">>
W_switch == <<"s", "w", "i", "t", "c", "h">>
W_catch == <<"c", "a", "t", "c", "h">>
W_export == <<"e", "x", "p", "o", "r", "t">>
W_const_ == <<"c", "o", "n", "s", "t", " ">>
W_arrow == <<"=", ">">>
W_else_if == <<"e", "l", "s", "e", " ", "i", "f">>
W_do == <<"d", "o">>
W_case == <<"c", "a", "s", "e">>
W_pure == <<"p", "u", "r", "e">>
W_side_effect == <<"s", "i", "d", "e", " ", "e", "f", "f", "e", "c", "t">>
W_interface == <<"i", "n", "t", "e", "r", "f", "a", "c", "e">>
W_type == <<"t", "y", "p", "e">>
W_document == <<"d", "o", "c", "u", "m", "e", "n", "t", ".">>
W_window == <<"w", "i", "n", "d", "o", "w", ".">>
W_localStorage == <<"l", "o", "c", "a", "l", "S", "t", "o", "r", "a", "g", "e">>
W_sessionStorage == <<"s", "e", "s", "s", "i", "o", "n", "S", "t", "o", "r", "a", "g", "e">>
W_Date_now == <<"D", "a", "t", "e", ".", "n", "o", "w">>
W_Math_random == <<"M", "a", "t", "h", ".", "r", "a", "n", "d", "o", "m">>
W_setTimeout == <<"s", "e", "t", "T", "i", "m", "e", "o", "u", "t">>
W_setInterval == <<"s", "e", "t", "I", "n", "t", "e", "r", "v", "a", "l">>
W_else == <<"e", "l", "s", "e">>
W_finally == <<"f", "i", "n", "a", "l", "l", "y">>
W_class == <<"c", "l", "a", "s", "s">>
W_extends == <<"e", "x", "t", "e", "n", "d", "s">>
W_function == <<"f", "u", "n", "c", "t", "i", "o", "n">>
W_import == <<"i", "m", "p", "o", "r", "t">>
W_return == <<"r", "e", "t", "u", "r", "n">>
W_throw == <<"t", "h", "r", "o", "w">>
W_map_call == <<".", "m", "a", "p", "(">>
W_key_attr == <<"k", "e", "y", "=">>
W_as == <<" ", "a", "s", " ">>

\* String.prototype.startsWith and endsWith
startsWith(s, t) == StartsAt(s, 1, t)
endsWith(s, t) == Len(t) <= Len(s) /\ SubSeq(s, Len(s) - Len(t) + 1, Len(s)) = t

(***************************************************************************)
(* utils/analyzer.ts: ReactCodeAnalyzer (definitions prefixed RCA_ where   *)
(* another analyzer has a method of the same name).                        *)
(*                                                                         *)
(* Of the rule catalog, the rules below are those a text of Texts (over    *)
(* CodeChars) or of WordTexts (WordTokens in a row, or one of WordSamples) *)
(* can trigger; every other rule needs a word, a digit, a quote or one of  *)
(* ! , / + - * % | ^ ~ that no such text holds.                            *)
(***************************************************************************)
createIssue(id, type, category, message, line, column, rule, suggestion) ==
    [id |-> id, type |-> type, category |-> category, message |-> message,
     line |-> line, column |-> column, rule |-> rule, suggestion |-> suggestion]

\* BRACKETS: Record<string, string>
BRACKETS == [c \in {"(", "[", "{"} |->
                CASE c = "(" -> ")" [] c = "[" -> "]" [] c = "{" -> "}"]

\* Object.values(this.BRACKETS)
BracketValues == {BRACKETS[c] : c \in DOMAIN BRACKETS}

\* checkCodeQualityRules: the empty-block and long-line rules.  The line has
\* no blank, so trimmedLine === '{ }' cannot hold.
checkCodeQualityRules(pcode, lines) ==
    ForEachLine([index \in 1..Len(lines) |->
        LET line == lines[index]
            lineNum == index
            trimmedLine == trim(line)
        IN  (IF trimmedLine = <<"{", "}">> \/ trimmedLine = <<"{", " ", "}">> THEN
                << createIssue(Tmpl(<<"empty-block-">>, <<lineNum>>),
                     "info", "Code Quality", Lit("Empty block detected"),
                     lineNum, indexOf(line, <<"{">>), "no-empty",
                     Lit("Remove empty block or add implementation")) >>
             ELSE <<>>)
            \o (IF Len(line) > 120 THEN
                << createIssue(Tmpl(<<"long-line-">>, <<lineNum>>),
                     "info", "Code Quality",
                     Lit("Line is too long - consider breaking it up"),
                     lineNum, 120, "line-length/max-length",
                     Lit("Break long line into multiple lines for better readability")) >>
             ELSE <<>>)])

\* checkComponentStructure, the whole-file rule that ends checkSemanticRules
checkComponentStructure(pcode) ==
    LET componentLines == Len(split(pcode))
    IN  IF componentLines > 100 THEN
            << createIssue(Lit("large-component"), "info", "Semantics",
                 Lit("Large component detected - consider breaking into smaller components"),
                 1, 0, "semantic-structure/component-size",
                 Lit("Split large components into smaller, single-responsibility components")) >>
        ELSE <<>>

\* checkBasicReactRules reading key= off the whole text instead of the line
checkBasicReactRules_KeyAnywhere(pcode, lines) ==
    ForEachLine([index \in 1..Len(lines) |->
        LET line == lines[index]
            lineNum == index
            trimmedLine == trim(line)
        IN  IF includes(trimmedLine, W_map_call) /\ ~includes(pcode, W_key_attr) THEN
                << createIssue(Tmpl(<<"missing-key-">>, <<lineNum>>),
                     "error", "React", Lit("Missing key prop in list rendering"),
                     lineNum, indexOf(line, W_map_call), "react/jsx-key",
                     Lit("Add unique key prop to each rendered element")) >>
            ELSE <<>>])

\* checkBasicReactRules: the missing-key rule.  The prop-types rule needs
\* '({ ', the two hook rules need the name of a React hook.
checkBasicReactRules(pcode, lines) ==
    ForEachLine([index \in 1..Len(lines) |->
        LET line == lines[index]
            lineNum == index
            trimmedLine == trim(line)
        IN  IF includes(trimmedLine, W_map_call) /\ ~includes(trimmedLine, W_key_attr) THEN
                << createIssue(Tmpl(<<"missing-key-">>, <<lineNum>>),
                     "error", "React", Lit("Missing key prop in list rendering"),
                     lineNum, indexOf(line, W_map_call), "react/jsx-key",
                     Lit("Add unique key prop to each rendered element")) >>
            ELSE <<>>])

\* checkBracketMatching(line, lineNum) of analyzer.ts: a stack per line.
\* st = [stack, issues]; i is the 0-based index of the source
RECURSIVE RCA_BracketLoop(_, _, _, _)
RCA_BracketLoop(st, line, lineNum, i) ==
    IF i >= Len(line) \/ ~Computed(st) THEN st
    ELSE LET char == line[i + 1]
             after ==
                IF char \in DOMAIN BRACKETS THEN
                    [st EXCEPT !.stack = Append(@, char)]
                ELSE IF char \in BracketValues THEN
                    LET empty == st.stack = <<>>
                        lastOpen == IF empty THEN "undefined" ELSE st.stack[Len(st.stack)]
                        popped == IF empty THEN st
                                  ELSE [st EXCEPT !.stack = SubSeq(@, 1, Len(@) - 1)]
                    IN  IF empty \/ BRACKETS[lastOpen] # char THEN
                            [popped EXCEPT !.issues = Append(@, createIssue(
                                Tmpl(<<"bracket-mismatch-", "-">>, <<lineNum, i>>),
                                "error", "Syntax",
                                Lit("Mismatched brackets or parentheses"),
                                lineNum, i, "syntax/bracket-matching",
                                Lit("Check bracket and parentheses pairing")))]
                        ELSE popped
                ELSE st
         IN  RCA_BracketLoop(after, line, lineNum, i + 1)

RCA_checkBracketMatching(line, lineNum) ==
    RCA_BracketLoop([stack |-> <<>>, issues |-> <<>>], line, lineNum, 0).issues

\* (line.includes('if') || line.includes('while')) && line.includes('=') &&
\* !line.includes('==') && !line.includes('===')
AssignmentInConditional(line) ==
    /\ includes(line, W_if) \/ includes(line, W_while)
    /\ includes(line, <<"=">>)
    /\ ~includes(line, <<"=", "=">>)
    /\ ~includes(line, <<"=", "=", "=">>)

\* checkConditionalSyntax: the assignment rule; the ternary rule needs a line
\* with '?', ':' and '<'
checkConditionalSyntax(line, lineNum) ==
    IF AssignmentInConditional(line) THEN
        << createIssue(Tmpl(<<"assignment-in-conditional-">>, <<lineNum>>),
             "warning", "Syntax",
             Lit("Assignment in conditional may be unintentional"),
             lineNum, indexOf(line, <<"=">>), "conditional-syntax/assignment",
             Lit("Use === for comparison or wrap assignment in parentheses if intentional")) >>
    ELSE <<>>

\* the line ends neither a statement nor a block: shared by
\* checkCommonSyntaxErrors and checkPunctuationSymbols
OpenEnded(line) ==
    /\ Len(trim(line)) > 0
    /\ ~endsWith(trim(line), <<";">>)
    /\ ~endsWith(trim(line), <<"{">>)
    /\ ~endsWith(trim(line), <<"}">>)
    /\ ~endsWith(trim(line), <<",">>)
    /\ ~includes(line, <<"/", "/">>)

checkCommonSyntaxErrors(line, lineNum) ==
    LET shouldHaveSemicolon ==
            /\ OpenEnded(line)
            /\ ~\E keyword \in {W_if, W_for, W_while, W_import, W_export} :
                    includes(line, keyword)
            /\ includes(line, <<"=">>)
    IN  IF shouldHaveSemicolon THEN
            << createIssue(Tmpl(<<"missing-semicolon-">>, <<lineNum>>),
                 "info", "Syntax", Lit("Consider adding semicolon for consistency"),
                 lineNum, Len(line), "syntax/semicolons",
                 Lit("Add semicolon at end of statement")) >>
        ELSE <<>>

\* checkSyntaxRules: of the seven per-line checks checkJSXSyntax,
\* checkFunctionSyntax, checkImportExportSyntax and checkObjectArraySyntax
\* cannot fire; checkCodeStructureSyntax follows the lines
RECURSIVE RCA_StructureChars(_, _, _, _)
RCA_StructureChars(st, line, lineIndex, i) ==
    IF i >= Len(line) \/ ~Computed(st) THEN st
    ELSE LET char == line[i + 1]
             after ==
                IF char \in DOMAIN BRACKETS THEN
                    [st EXCEPT !.stack = Append(@, [char |-> char, line |-> lineIndex + 1])]
                ELSE IF char \in BracketValues THEN
                    LET empty == st.stack = <<>>
                        popped == IF empty THEN st
                                  ELSE [st EXCEPT !.stack = SubSeq(@, 1, Len(@) - 1)]
                    IN  IF empty \/ BRACKETS[st.stack[Len(st.stack)].char] # char THEN
                            [popped EXCEPT !.issues = Append(@, createIssue(
                                Tmpl(<<"unmatched-bracket-">>, <<lineIndex + 1>>),
                                "error", "Syntax",
                                Lit("Unmatched bracket in code structure"),
                                lineIndex + 1, i, "syntax/code-structure",
                                Lit("Check bracket matching throughout the file")))]
                        ELSE popped
                ELSE st
         IN  RCA_StructureChars(after, line, lineIndex, i + 1)

RECURSIVE RCA_StructureLines(_, _, _)
RCA_StructureLines(st, lines, lineIndex) ==
    IF lineIndex >= Len(lines) THEN st
    ELSE RCA_StructureLines(RCA_StructureChars(st, lines[lineIndex + 1], lineIndex, 0),
                            lines, lineIndex + 1)

checkCodeStructureSyntax(pcode) ==
    LET st == RCA_StructureLines([stack |-> <<>>, issues |-> <<>>], split(pcode), 0)
    IN  st.issues \o
        [k \in 1..Len(st.stack) |->
            createIssue(Tmpl(<<"unclosed-bracket-">>, <<st.stack[k].line>>),
                "error", "Syntax",
                Tmpl(<<"Unclosed ", st.stack[k].char, " bracket">>, <<>>),
                st.stack[k].line, 0, "syntax/unclosed-brackets",
                Tmpl(<<"Add closing ", BRACKETS[st.stack[k].char], " bracket">>, <<>>))]

checkSyntaxRules(pcode, lines) ==
    ForEachLine([index \in 1..Len(lines) |->
        RCA_checkBracketMatching(lines[index], index)
        \o checkConditionalSyntax(lines[index], index)
        \o checkCommonSyntaxErrors(lines[index], index)])
    \o checkCodeStructureSyntax(pcode)

\* /([<>]=?)\s*[^&|]+\s*([<>]=?)/ matched from the 0-based index i with a
\* first group of g characters: one character or more, none of them & or |,
\* and then < or >
ChainedFrom(line, i, g) ==
    \E j \in (i + g + 1)..(Len(line) - 1) :
        /\ line[j + 1] \in {"<", ">"}
        /\ \A k \in (i + g)..(j - 1) : line[k + 1] \notin {"&", "|"}

\* the first group taken greedily: with the = when the rest still matches
ChainedGroup(line, i) ==
    IF i + 2 <= Len(line) /\ line[i + 2] = "=" /\ ChainedFrom(line, i, 2)
    THEN <<line[i + 1], "=">>
    ELSE <<line[i + 1]>>

ChainedStarts(line) ==
    {i \in 0..(Len(line) - 1) :
        /\ line[i + 1] \in {"<", ">"}
        /\ \/ ChainedFrom(line, i, 1)
           \/ i + 2 <= Len(line) /\ line[i + 2] = "=" /\ ChainedFrom(line, i, 2)}

\* line.match(/(?<!=)={2}(?!=)/)
LooseEqualityMatch(line) ==
    \E i \in 1..(Len(line) - 1) :
        /\ line[i] = "=" /\ line[i + 1] = "="
        /\ i = 1 \/ line[i - 1] # "="
        /\ i + 1 = Len(line) \/ line[i + 2] # "="

\* checkComparisonOperators: the loose-equality and chained-comparison rules;
\* the loose-inequality rule needs '!='
checkComparisonOperators(line, lineNum) ==
    (IF /\ includes(line, <<"=", "=">>)
        /\ ~includes(line, <<"=", "=", "=">>)
        /\ ~includes(line, <<"!", "=", "=">>)
        /\ LooseEqualityMatch(line)
     THEN << createIssue(Tmpl(<<"loose-equality-">>, <<lineNum>>),
               "warning", "Operators",
               Lit("Use strict equality (===) instead of loose equality (==)"),
               lineNum, indexOf(line, <<"=", "=">>), "operators/strict-equality",
               Lit("Replace == with === for type-safe comparison")) >>
     ELSE <<>>)
    \o (IF ChainedStarts(line) # {} THEN
            LET first == CHOOSE i \in ChainedStarts(line) :
                            \A j \in ChainedStarts(line) : i <= j
            IN  << createIssue(Tmpl(<<"chained-comparison-">>, <<lineNum>>),
                     "info", "Operators",
                     Lit("Chained comparison detected - ensure logical correctness"),
                     lineNum, indexOf(line, ChainedGroup(line, first)),
                     "operators/chained-comparison",
                     Lit("Consider breaking into separate conditions for clarity")) >>
         ELSE <<>>)

\* checkAssignmentOperators: the assignment-in-conditional rule; the
\* compound-assignment rule needs one of + - * / %
checkAssignmentOperators(line, lineNum) ==
    IF AssignmentInConditional(line) THEN
        << createIssue(Tmpl(<<"assignment-in-conditional-">>, <<lineNum>>),
             "warning", "Operators",
             Lit("Assignment in conditional expression may be unintentional"),
             lineNum, indexOf(line, <<"=">>), "operators/assignment-in-conditional",
             Lit("Use comparison operators or wrap assignment in parentheses if intentional")) >>
    ELSE <<>>

\* (line.match(/&&|\|\|/g) || []).length: non-overlapping, left to right
RECURSIVE CountLogical(_, _)
CountLogical(line, i) ==
    IF i >= Len(line) THEN 0
    ELSE IF SubSeq(line, i, i + 1) \in {<<"&", "&">>, <<"|", "|">>}
         THEN 1 + CountLogical(line, i + 2)
         ELSE CountLogical(line, i + 1)

checkLogicalOperators(line, lineNum) ==
    LET logicalCount == CountLogical(line, 1)
    IN  IF logicalCount > 3 THEN
            << createIssue(Tmpl(<<"complex-logical-">>, <<lineNum>>),
                 "warning", "Operators",
                 Lit("Complex logical expression detected - consider simplifying"),
                 lineNum, 0, "operators/complex-logical",
                 Lit("Break complex logical expressions into smaller, named variables")) >>
        ELSE <<>>

bitwiseOps == << <<"&">>, <<"|">>, <<"^">>, <<"~">>, <<"<", "<">>, <<">", ">">>,
                 <<">", ">", ">">> >>

checkBitwiseOperators(line, lineNum) ==
    Flatten([k \in 1..Len(bitwiseOps) |->
        LET op == bitwiseOps[k]
        IN  IF /\ includes(line, op)
               /\ ~includes(line, op \o op)
               /\ ~includes(line, op \o <<"=">>)
               /\ ~((op = <<"&">> /\ includes(line, <<"&", "&">>))
                    \/ (op = <<"|">> /\ includes(line, <<"|", "|">>)))
            THEN << createIssue(Tmpl(<<"bitwise-operator-">>, <<lineNum>>),
                      "info", "Operators",
                      Tmpl(<<"Bitwise operator ">> \o op \o <<" detected - ensure intentional use">>, <<>>),
                      lineNum, indexOf(line, op), "operators/bitwise",
                      Lit("Verify bitwise operation is intended, not logical operation")) >>
            ELSE <<>>])

\* checkModernJSSymbols: the nullish-coalescing rule
checkModernJSSymbols(line, lineNum) ==
    IF includes(line, <<"?", "?">>) THEN
        << createIssue(Tmpl(<<"nullish-coalescing-">>, <<lineNum>>),
             "info", "Symbols",
             Lit("Nullish coalescing operator used - good modern JS practice"),
             lineNum, indexOf(line, <<"?", "?">>), "symbols/nullish-coalescing",
             Lit("Preferred over || for null/undefined checks")) >>
    ELSE <<>>

\* a || b on numbers: a unless a is 0
OrElse(a, b) == IF a # 0 THEN a ELSE b

\* checkTypeScriptSymbols: the optional-property and type-assertion rules; the
\* non-null rule needs '!', the generic-type rule a name between < and >
checkTypeScriptSymbols(line, lineNum) ==
    (IF includes(line, <<"?", ":">>) \/ (includes(line, <<"?">>) /\ includes(line, <<":">>)) THEN
        << createIssue(Tmpl(<<"optional-property-">>, <<lineNum>>),
             "info", "Symbols", Lit("Optional property syntax detected"),
             lineNum, indexOf(line, <<"?">>), "symbols/optional-property",
             Lit("Good TypeScript practice for optional interface properties")) >>
     ELSE <<>>)
    \o (IF \/ includes(line, W_as)
            \/ /\ includes(line, <<"<">>)
               /\ includes(line, <<">">>)
               /\ ~includes(line, <<"<", "/">>)
         THEN << createIssue(Tmpl(<<"type-assertion-">>, <<lineNum>>),
                   "warning", "Symbols",
                   Lit("Type assertion detected - ensure type safety"),
                   lineNum, OrElse(indexOf(line, W_as), indexOf(line, <<"<">>)),
                   "symbols/type-assertion",
                   Lit("Prefer type guards over type assertions when possible")) >>
         ELSE <<>>)

\* checkPunctuationSymbols: the missing-semicolon rule; the trailing-comma
\* rule needs ','
checkPunctuationSymbols(line, lineNum) ==
    LET shouldHaveSemicolon ==
            /\ OpenEnded(line)
            /\ ~\E keyword \in {W_if, W_for, W_while, W_import, W_export,
                                 W_class, W_interface, W_type} :
                    startsWith(trim(line), keyword)
            /\ \/ includes(line, <<"=">>)
               \/ includes(line, W_return)
               \/ includes(line, W_throw)
    IN  IF shouldHaveSemicolon THEN
            << createIssue(Tmpl(<<"missing-semicolon-">>, <<lineNum>>),
                 "info", "Symbols", Lit("Missing semicolon"),
                 lineNum, Len(line), "symbols/semicolon",
                 Lit("Add semicolon for consistent code style")) >>
        ELSE <<>>

\* checkSpecialPatterns: the nested-ternary rule
checkSpecialPatterns(line, lineNum) ==
    IF includes(line, <<"?">>) /\ includes(line, <<":">>) /\ CountChar(line, "?") > 1 THEN
        << createIssue(Tmpl(<<"nested-ternary-">>, <<lineNum>>),
             "warning", "Symbols",
             Lit("Nested ternary operators detected - consider if/else for readability"),
             lineNum, indexOf(line, <<"?">>), "symbols/nested-ternary",
             Lit("Break complex ternary into if/else statements")) >>
    ELSE <<>>

checkOperatorsAndSymbols(pcode, lines) ==
    ForEachLine([index \in 1..Len(lines) |->
        LET line == lines[index]
            lineNum == index
        IN  checkComparisonOperators(line, lineNum)
            \o checkLogicalOperators(line, lineNum)
            \o checkAssignmentOperators(line, lineNum)
            \o checkBitwiseOperators(line, lineNum)
            \o checkModernJSSymbols(line, lineNum)
            \o checkTypeScriptSymbols(line, lineNum)
            \o checkPunctuationSymbols(line, lineNum)
            \o checkSpecialPatterns(line, lineNum)])

\* code.match(/(if|for|while|switch|catch|\?\s*:)/g): the number of matches,
\* scanning left to right, the alternatives tried in order at each position
IndicatorWords == << W_if, W_for, W_while, W_switch, W_catch >>

\* the length of the match of the pattern at 1-based position i, 0 if none
IndicatorAt(pcode, i) ==
    LET words == {k \in 1..Len(IndicatorWords) : StartsAt(pcode, i, IndicatorWords[k])}
        colons == {p \in AfterBlanks(pcode, i + 1) : p <= Len(pcode) /\ pcode[p] = ":"}
    IN  IF words # {} THEN Len(IndicatorWords[CHOOSE k \in words : \A j \in words : k <= j])
        ELSE IF pcode[i] = "?" /\ colons # {} THEN (CHOOSE p \in colons : TRUE) - i + 1
        ELSE 0

RECURSIVE CountIndicators(_, _)
CountIndicators(pcode, i) ==
    IF i > Len(pcode) THEN 0
    ELSE LET n == IndicatorAt(pcode, i)
         IN  IF n > 0 THEN 1 + CountIndicators(pcode, i + n)
             ELSE CountIndicators(pcode, i + 1)

\* calculateMetrics with the lower clamp of the category scores left out
RCA_calculateMetrics_NoFloor(pcode, issues) ==
    LET complexityIndicators == CountIndicators(pcode, 1)
        hasExports == includes(pcode, W_export)
        hasPureFunctions == includes(pcode, W_const_) /\ includes(pcode, W_arrow)
        hasProperStructure ==
            ~\E k \in 1..Len(issues) :
                issues[k].category = "Syntax" /\ issues[k].type = "error"
    IN  [complexity |-> Min(10, 10 - (complexityIndicators \div 2)),
         maintainability |-> Min(10, 10 - (Len(issues) \div 4)),
         testability |-> IF hasExports /\ hasPureFunctions /\ hasProperStructure
                         THEN 8 ELSE 6,
         performance |-> Min(10, 8 - CountCategory(issues, "Performance")),
         semanticQuality |-> Min(10, 10 - CountCategory(issues, "Semantics")),
         syntaxQuality |-> Min(10, 10 - CountCategory(issues, "Syntax")),
         typeQuality |-> Min(10, 10 - CountCategory(issues, "TypeScript")),
         operatorQuality |-> Min(10, 10 - CountCategory(issues, "Operators")),
         symbolQuality |-> Min(10, 10 - CountCategory(issues, "Symbols"))]

RCA_calculateMetrics(pcode, issues) ==
    LET complexityIndicators == CountIndicators(pcode, 1)
        complexity == Min(10, Max(1, 10 - (complexityIndicators \div 2)))
        issuesByCategory ==
            [semantics |-> CountCategory(issues, "Semantics"),
             syntax |-> CountCategory(issues, "Syntax"),
             typescript |-> CountCategory(issues, "TypeScript"),
             performance |-> CountCategory(issues, "Performance"),
             operators |-> CountCategory(issues, "Operators"),
             symbols |-> CountCategory(issues, "Symbols")]
        maintainability == Min(10, Max(1, 10 - (Len(issues) \div 4)))
        hasExports == includes(pcode, W_export)
        hasPureFunctions == includes(pcode, W_const_) /\ includes(pcode, W_arrow)
        hasProperStructure ==
            ~\E k \in 1..Len(issues) :
                issues[k].category = "Syntax" /\ issues[k].type = "error"
        testability == IF hasExports /\ hasPureFunctions /\ hasProperStructure
                       THEN 8 ELSE 6
    IN  [complexity |-> complexity,
         maintainability |-> maintainability,
         testability |-> testability,
         performance |-> Min(10, Max(1, 8 - issuesByCategory.performance)),
         semanticQuality |-> Min(10, Max(1, 10 - issuesByCategory.semantics)),
         syntaxQuality |-> Min(10, Max(1, 10 - issuesByCategory.syntax)),
         typeQuality |-> Min(10, Max(1, 10 - issuesByCategory.typescript)),
         operatorQuality |-> Min(10, Max(1, 10 - issuesByCategory.operators)),
         symbolQuality |-> Min(10, Max(1, 10 - issuesByCategory.symbols))]

\* generateSummary counting the info issues among the warnings as well
RCA_generateSummary_InfoAsWarning(issues) ==
    [errors |-> CountType(issues, "error"),
     warnings |-> CountType(issues, "warning") + CountType(issues, "info"),
     info |-> CountType(issues, "info"),
     total |-> Len(issues),
     byCategory |-> <<>>]

RCA_generateSummary(issues) ==
    LET isReact(i) == i.category = "React" \/ i.category = "React Hooks"
    IN  [errors |-> CountType(issues, "error"),
         warnings |-> CountType(issues, "warning"),
         info |-> CountType(issues, "info"),
         total |-> Len(issues),
         byCategory |->
            [semantics |-> CountCategory(issues, "Semantics"),
             syntax |-> CountCategory(issues, "Syntax"),
             accessibility |-> CountCategory(issues, "Accessibility"),
             performance |-> CountCategory(issues, "Performance"),
             typescript |-> CountCategory(issues, "TypeScript"),
             react |-> Len(SelectSeq(issues, isReact)),
             operators |-> CountCategory(issues, "Operators"),
             symbols |-> CountCategory(issues, "Symbols")]]

\* analyzeCode running checkSyntaxRules ahead of the other rule checks
RCA_analyzeCode_SyntaxFirst(pcode) ==
    LET lines == split(pcode)
        issues == checkSyntaxRules(pcode, lines)
                  \o checkBasicReactRules(pcode, lines)
                  \o checkCodeQualityRules(pcode, lines)
                  \o checkComponentStructure(pcode)
                  \o checkOperatorsAndSymbols(pcode, lines)
    IN  [issues |-> issues,
         metrics |-> RCA_calculateMetrics(pcode, issues),
         summary |-> RCA_generateSummary(issues)]

\* analyzeCode: checkTypeScriptRules, checkAccessibilityRules and
\* checkPerformanceRules push nothing for a text of Texts or of WordTexts; of
\* checkSemanticRules only checkComponentStructure can fire
RCA_analyzeCode(pcode) ==
    LET lines == split(pcode)
        issues == checkBasicReactRules(pcode, lines)
                  \o checkCodeQualityRules(pcode, lines)
                  \o checkComponentStructure(pcode)
                  \o checkSyntaxRules(pcode, lines)
                  \o checkOperatorsAndSymbols(pcode, lines)
    IN  [issues |-> issues,
         metrics |-> RCA_calculateMetrics(pcode, issues),
         summary |-> RCA_generateSummary(issues)]

(***************************************************************************)
(* types/index.ts: EnhancedSemanticAnalyzer.  As above, the rules modelled *)
(* are those a text over CodeChars can trigger.                            *)
(***************************************************************************)
\* category.charAt(0).toUpperCase() + category.slice(1)
Capitalize(category) ==
    CASE category = "naming" -> "Naming"
      [] category = "structure" -> "Structure"
      [] category = "logic" -> "Logic"
      [] category = "accessibility" -> "Accessibility"
      [] category = "performance" -> "Performance"
      [] category = "maintainability" -> "Maintainability"
      [] OTHER -> category

createSemanticIssue(id, type, category, message, line, column, rule, suggestion) ==
    [id |-> id, type |-> type, category |-> Capitalize(category), message |-> message,
     line |-> line, column |-> column, rule |-> rule, suggestion |-> suggestion]

\* calculateCyclomaticComplexity without the per-line increments capped
RECURSIVE CyclomaticLoop(_, _, _)
CyclomaticLoop(lines, k, complexity) ==
    IF k > Len(lines) THEN complexity
    ELSE LET line == lines[k]
             b(x) == IF x THEN 1 ELSE 0
         IN  CyclomaticLoop(lines, k + 1,
                complexity
                + b(includes(line, W_if) \/ includes(line, W_else_if))
                + b(includes(line, W_for) \/ includes(line, W_while) \/ includes(line, W_do))
                + b(includes(line, W_switch))
                + b(includes(line, W_case))
                + b(includes(line, W_catch))
                + b(includes(line, <<"&", "&">>) \/ includes(line, <<"|", "|">>))
                + b(includes(line, <<"?">>) /\ includes(line, <<":">>)))

\* calculateCyclomaticComplexity counting from 0 instead of the base 1
calculateCyclomaticComplexity_NoBase(lines) == CyclomaticLoop(lines, 1, 0)

calculateCyclomaticComplexity(lines) == CyclomaticLoop(lines, 1, 1)

\* lines.filter(line => line.trim().length > 0).length
linesOfCode(lines) == Cardinality({k \in 1..Len(lines) : Len(trim(lines[k])) > 0})

\* analyzeComponentStructure: the size and complexity rules.  No custom hook
\* and no props access can occur, so the hook-count and prop-drilling rules
\* stay silent.
analyzeComponentStructure(lines) ==
    (IF linesOfCode(lines) > 200 THEN
        << createSemanticIssue(Lit("large-component"), "warning", "structure",
             Lit("Component is too large - consider breaking it down"),
             1, 0, "semantic/component-size",
             Lit("Split into smaller, focused components")) >>
     ELSE <<>>)
    \o (IF calculateCyclomaticComplexity(lines) > 10 THEN
        << createSemanticIssue(Lit("complex-component"), "warning", "structure",
             Lit("Component has high cyclomatic complexity"),
             1, 0, "semantic/component-complexity",
             Lit("Reduce complexity by extracting logic into separate functions")) >>
     ELSE <<>>)

\* analyzeLogicalFlow: the complex-condition rule
analyzeLogicalFlow(lines) ==
    ForEachLine([index \in 1..Len(lines) |->
        IF CountLogical(lines[index], 1) > 3 THEN
            << createSemanticIssue(Tmpl(<<"complex-condition-">>, <<index>>),
                 "info", "logic", Lit("Complex conditional expression"),
                 index, 0, "semantic/complex-condition",
                 Lit("Break complex conditions into named boolean variables")) >>
        ELSE <<>>])

isDuplicatedLogic(line, lines, index) ==
    LET trimmedLine == trim(line)
    IN  IF Len(trimmedLine) < 10 THEN FALSE
        ELSE \E otherIndex \in 1..Len(lines) :
                otherIndex # index /\ trim(lines[otherIndex]) = trimmedLine

\* analyzeMaintainabilitySemantics: the duplicated-logic rule
analyzeMaintainabilitySemantics(lines) ==
    ForEachLine([index \in 1..Len(lines) |->
        IF isDuplicatedLogic(lines[index], lines, index) THEN
            << createSemanticIssue(Tmpl(<<"duplicated-logic-">>, <<index>>),
                 "info", "maintainability", Lit("Potential code duplication detected"),
                 index, 0, "semantic/code-duplication",
                 Lit("Extract common logic into reusable functions")) >>
        ELSE <<>>])

\* analyzeCognitiveComplexity.  No line over CodeChars starts with white
\* space, so the nesting term of the score is 0.
RECURSIVE CognitiveLoop(_, _, _)
CognitiveLoop(lines, k, cognitiveScore) ==
    IF k > Len(lines) THEN cognitiveScore
    ELSE LET line == lines[k]
             b(x) == IF x THEN 1 ELSE 0
         IN  CognitiveLoop(lines, k + 1,
                cognitiveScore
                + b(includes(line, W_if) \/ includes(line, W_else) \/ includes(line, W_switch))
                + b(includes(line, W_for) \/ includes(line, W_while) \/ includes(line, W_do))
                + b(includes(line, W_catch) \/ includes(line, W_finally))
                + CountLogical(line, 1))

analyzeCognitiveComplexity(lines) ==
    LET cognitiveScore == CognitiveLoop(lines, 1, 0)
    IN  IF cognitiveScore > 15 THEN
            << createSemanticIssue(Lit("high-cognitive-complexity"), "warning",
                 "maintainability",
                 Tmpl(<<"High cognitive complexity: ">>, <<cognitiveScore>>),
                 1, 0, "semantic/cognitive-complexity",
                 Lit("Break down complex logic into smaller, simpler functions")) >>
        ELSE <<>>

calculateTestability(pcode) ==
    LET b(x) == IF x THEN 1 ELSE 0
        score == 5
            + 2 * b(includes(pcode, W_export))
            + b(includes(pcode, W_pure) \/ ~includes(pcode, W_side_effect))
            + b(includes(pcode, W_interface) \/ includes(pcode, W_type))
            + b(~includes(pcode, W_document) /\ ~includes(pcode, W_window))
            - b(includes(pcode, W_localStorage) \/ includes(pcode, W_sessionStorage))
            - b(includes(pcode, W_Date_now) \/ includes(pcode, W_Math_random))
            - b(includes(pcode, W_setTimeout) \/ includes(pcode, W_setInterval))
    IN  Max(1, Min(10, score))

\* issues.filter(i => i.message.includes(word)).length.  None of the messages
\* of the rules modelled contains "type", "operator" or "symbol".
CountMessageIncludes(issues, word) == 0

calculateSemanticMetrics(pcode, issues) ==
    LET lines == split(pcode)
        complexity == calculateCyclomaticComplexity(lines)
        issuesByCategory ==
            [naming |-> CountCategory(issues, "naming"),
             structure |-> CountCategory(issues, "structure"),
             logic |-> CountCategory(issues, "logic"),
             accessibility |-> CountCategory(issues, "accessibility"),
             performance |-> CountCategory(issues, "performance"),
             maintainability |-> CountCategory(issues, "maintainability")]
        semanticQuality == Max(1, 10 - issuesByCategory.naming - issuesByCategory.structure)
        syntaxQuality == Max(1, 10 - (CountType(issues, "error") \div 2))
        typeQuality == Max(1, 10 - CountMessageIncludes(issues, "type"))
        operatorQuality == Max(1, 10 - CountMessageIncludes(issues, "operator"))
        symbolQuality == Max(1, 10 - CountMessageIncludes(issues, "symbol"))
        maintainability == Max(1, 10 - issuesByCategory.maintainability)
        testability == calculateTestability(pcode)
        performance == Max(1, 10 - issuesByCategory.performance)
    IN  [complexity |-> complexity,
         maintainability |-> maintainability,
         testability |-> testability,
         performance |-> performance,
         semanticQuality |-> semanticQuality,
         syntaxQuality |-> syntaxQuality,
         typeQuality |-> typeQuality,
         operatorQuality |-> operatorQuality,
         symbolQuality |-> symbolQuality]

generateSemanticSummary(issues) ==
    LET isSemantics(i) == i.category = "naming" \/ i.category = "structure"
    IN  [errors |-> CountType(issues, "error"),
         warnings |-> CountType(issues, "warning"),
         info |-> CountType(issues, "info"),
         total |-> Len(issues),
         byCategory |->
            [semantics |-> Len(SelectSeq(issues, isSemantics)),
             syntax |-> CountCategory(issues, "Syntax"),
             accessibility |-> CountCategory(issues, "accessibility"),
             performance |-> CountCategory(issues, "performance"),
             typescript |-> CountCategory(issues, "TypeScript"),
             react |-> CountCategory(issues, "React"),
             operators |-> CountCategory(issues, "Operators"),
             symbols |-> CountCategory(issues, "Symbols")]]

detectComponentType(pcode) ==
    IF includes(pcode, W_class) /\ includes(pcode, W_extends) THEN "class"
    ELSE IF includes(pcode, W_function) \/ includes(pcode, W_arrow) THEN "functional"
    ELSE "unknown"

\* initializeContext: the value assigned to this.context.  The four extract*
\* helpers match declarations (const, function, class, useState, useEffect),
\* which no text over CodeChars contains.
initializeContext(pcode, lines) ==
    [componentType |-> detectComponentType(pcode),
     stateVariables |-> <<>>,
     effectDependencies |-> <<>>,
     customHooks |-> <<>>,
     isInsideComponent |-> FALSE,
     isInsideHook |-> FALSE,
     nestingLevel |-> 0,
     componentName |-> "undefined"]

\* the initializer of the context field
InitialContext ==
    [componentType |-> "unknown",
     stateVariables |-> <<>>,
     effectDependencies |-> <<>>,
     customHooks |-> <<>>,
     isInsideComponent |-> FALSE,
     isInsideHook |-> FALSE,
     nestingLevel |-> 0,
     componentName |-> "undefined"]

\* analyzeSemantics: of the eleven passes, the four below can push issues
analyzeSemantics(pcode) ==
    LET lines == split(pcode)
        issues == analyzeComponentStructure(lines)
                  \o analyzeLogicalFlow(lines)
                  \o analyzeMaintainabilitySemantics(lines)
                  \o analyzeCognitiveComplexity(lines)
    IN  [issues |-> issues,
         metrics |-> calculateSemanticMetrics(pcode, issues),
         summary |-> generateSemanticSummary(issues)]

\* generateSemanticScore: the six scores of the breakdown, each 0..100
ScoreBreakdown(issues, lines) ==
    [naming |-> Max(0, 100 - (CountCategory(issues, "Naming") * 5)),
     structure |-> Max(0, 100 - (CountCategory(issues, "Structure") * 8)),
     complexity |-> Max(0, 100 - (calculateCyclomaticComplexity(lines) * 5)),
     maintainability |-> Max(0, 100 - (CountCategory(issues, "Maintainability") * 6)),
     performance |-> Max(0, 100 - (CountCategory(issues, "Performance") * 10)),
     accessibility |-> Max(0, 100 - (CountCategory(issues, "Accessibility") * 8))]

\* the weights of the overall score, in hundredths
ScoreWeights ==
    [naming |-> 15, structure |-> 25, complexity |-> 20, maintainability |-> 20,
     performance |-> 10, accessibility |-> 10]

\* Math.round(x / 100) for an integer x >= 0: halves round up.  The doubles
\* the source adds up round to the same integer as the exact sum for every
\* breakdown the six formulas above can give.
RoundHundredths(x) == (x + 50) \div 100

\* the weighted sum cut off instead of rounded
ScoreOverall_Truncated(b) ==
    (b.naming * 15 + b.structure * 25 + b.complexity * 20 + b.maintainability * 20
     + b.performance * 10 + b.accessibility * 10) \div 100

ScoreOverall(b) ==
    RoundHundredths(b.naming * ScoreWeights.naming
                    + b.structure * ScoreWeights.structure
                    + b.complexity * ScoreWeights.complexity
                    + b.maintainability * ScoreWeights.maintainability
                    + b.performance * ScoreWeights.performance
                    + b.accessibility * ScoreWeights.accessibility)

\* the grade chain with the A band starting one point late
ScoreGrade_LateA(overallScore) ==
    IF overallScore >= 90 THEN "A+"
    ELSE IF overallScore >= 86 THEN "A"
    ELSE IF overallScore >= 80 THEN "A-"
    ELSE IF overallScore >= 75 THEN "B+"
    ELSE IF overallScore >= 70 THEN "B"
    ELSE IF overallScore >= 65 THEN "B-"
    ELSE IF overallScore >= 60 THEN "C+"
    ELSE IF overallScore >= 55 THEN "C"
    ELSE IF overallScore >= 50 THEN "C-"
    ELSE IF overallScore >= 45 THEN "D+"
    ELSE IF overallScore >= 40 THEN "D"
    ELSE "F"

\* generateSemanticScore: the if-chain that determines the grade
ScoreGrade(overallScore) ==
    IF overallScore >= 90 THEN "A+"
    ELSE IF overallScore >= 85 THEN "A"
    ELSE IF overallScore >= 80 THEN "A-"
    ELSE IF overallScore >= 75 THEN "B+"
    ELSE IF overallScore >= 70 THEN "B"
    ELSE IF overallScore >= 65 THEN "B-"
    ELSE IF overallScore >= 60 THEN "C+"
    ELSE IF overallScore >= 55 THEN "C"
    ELSE IF overallScore >= 50 THEN "C-"
    ELSE IF overallScore >= 45 THEN "D+"
    ELSE IF overallScore >= 40 THEN "D"
    ELSE "F"

\* generateSemanticScore from the point where `issues` and `lines` are set
ScoreFrom(issues, lines) ==
    LET breakdown == ScoreBreakdown(issues, lines)
        overallScore == ScoreOverall(breakdown)
    IN  [overallScore |-> overallScore,
         breakdown |-> breakdown,
         grade |-> ScoreGrade(overallScore)]

generateSemanticScore(pcode) ==
    ScoreFrom(analyzeSemantics(pcode).issues, split(pcode))

(***************************************************************************)
(* components/CodeAnalyzer.tsx: the ReactCodeAnalyzer that combines the    *)
(* syntax analysis with its own React rules (definitions prefixed CA_).    *)
(***************************************************************************)
\* checkBasicReactRules: the missing-key rule; the prop-types rule needs
\* '({ ', the missing-deps rule 'useEffect'
CA_checkBasicReactRules(pcode, lines) ==
    ForEachLine([index \in 1..Len(lines) |->
        LET line == lines[index]
            lineNum == index
            trimmedLine == trim(line)
        IN  IF includes(trimmedLine, W_map_call) /\ ~includes(trimmedLine, W_key_attr) THEN
                << [id |-> Tmpl(<<"missing-key-">>, <<lineNum>>),
                    type |-> "error", category |-> "React",
                    message |-> Lit("Missing key prop in list rendering"),
                    line |-> lineNum, column |-> indexOf(line, W_map_call),
                    rule |-> "react/jsx-key",
                    suggestion |-> Lit("Add unique key prop to each rendered element")] >>
            ELSE <<>>])

\* checkCodeQualityRules: the empty-block rule
CA_checkCodeQualityRules(pcode, lines) ==
    ForEachLine([index \in 1..Len(lines) |->
        LET line == lines[index]
            trimmedLine == trim(line)
        IN  IF trimmedLine = <<"{", "}">> \/ trimmedLine = <<"{", " ", "}">> THEN
                << [id |-> Tmpl(<<"empty-block-">>, <<index>>),
                    type |-> "info", category |-> "Code Quality",
                    message |-> Lit("Empty block detected"),
                    line |-> index, column |-> indexOf(line, <<"{">>),
                    rule |-> "no-empty",
                    suggestion |-> Lit("Remove empty block or add implementation")] >>
            ELSE <<>>])

calculateReactMetrics(pcode, issues) ==
    LET complexityIndicators == CountIndicators(pcode, 1)
        hasExports == includes(pcode, W_export)
        hasPureFunctions == includes(pcode, W_const_) /\ includes(pcode, W_arrow)
    IN  [complexity |-> Min(10, Max(1, 10 - (complexityIndicators \div 2))),
         maintainability |-> Min(10, Max(1, 10 - (Len(issues) \div 3))),
         testability |-> IF hasExports /\ hasPureFunctions THEN 8 ELSE 6,
         performance |-> Min(10, Max(1, 8 - CountCategory(issues, "Performance")))]

\* Math.round(x / 10) for an integer x >= 0: halves round up
RoundTenths(x) == (x + 5) \div 10

\* Math.round(a * 0.3 + b * 0.7) for integers a, b in 1..10, in the double
\* arithmetic of the language: 0.7 * 6 is 4.199999999999999 and 0.7 * 7 is
\* 4.8999999999999995, so the sums for (1, 6) and (2, 7) fall just below
\* 4.5 and 5.5 and round down.  Every other sum rounds as the exact one
\* does, as do all sums with the weights 0.4, 0.6 and 0.2, 0.8.
RoundBlend37(a, b) ==
    IF <<a, b>> \in {<<1, 6>>, <<2, 7>>} THEN (a * 3 + b * 7) \div 10
    ELSE RoundTenths(a * 3 + b * 7)

\* combineMetrics with the weights 0.3 and 0.8 for complexity
combineMetrics_Overweight(syntaxMetrics, reactMetrics) ==
    [complexity |-> RoundTenths(syntaxMetrics.complexity * 3 + reactMetrics.complexity * 8),
     maintainability |->
        RoundTenths(syntaxMetrics.maintainability * 4 + reactMetrics.maintainability * 6),
     testability |-> RoundBlend37(syntaxMetrics.testability, reactMetrics.testability),
     performance |-> RoundTenths(syntaxMetrics.performance * 2 + reactMetrics.performance * 8)]

combineMetrics(syntaxMetrics, reactMetrics) ==
    [complexity |-> RoundBlend37(syntaxMetrics.complexity, reactMetrics.complexity),
     maintainability |->
        RoundTenths(syntaxMetrics.maintainability * 4 + reactMetrics.maintainability * 6),
     testability |-> RoundBlend37(syntaxMetrics.testability, reactMetrics.testability),
     performance |-> RoundTenths(syntaxMetrics.performance * 2 + reactMetrics.performance * 8)]

CA_generateSummary(issues) ==
    [errors |-> CountType(issues, "error"),
     warnings |-> CountType(issues, "warning"),
     info |-> CountType(issues, "info"),
     total |-> Len(issues)]

\* analyzeCode: the TypeScript, accessibility and performance rules push
\* nothing for a text of Texts or of WordTexts
CA_analyzeCode(pcode) ==
    LET lines == split(pcode)
        syntaxAnalysis == analyzeSyntax(pcode)
        issues == syntaxAnalysis.issues
                  \o CA_checkBasicReactRules(pcode, lines)
                  \o CA_checkCodeQualityRules(pcode, lines)
        reactMetrics == calculateReactMetrics(pcode, issues)
    IN  [issues |-> issues,
         metrics |-> combineMetrics(syntaxAnalysis.metrics, reactMetrics),
         summary |-> CA_generateSummary(issues)]

(***************************************************************************)
(* The filter panel over a list of issues                                  *)
(***************************************************************************)
NoAnalysis == [issues |-> <<>>, metrics |-> <<>>, summary |-> <<>>]

\* generateSemanticScore not entered
NoScoring == [issues |-> <<>>, lines |-> <<>>]

\* the comparison view not mounted
NoComparison ==
    /\ analyzedFiles = <<>>
    /\ selectedFileA = <<>>
    /\ selectedFileB = <<>>
    /\ metricComparisons = <<>>

\* no analyzer called
NoAnalyzerCall ==
    /\ code = <<>>
    /\ analyzed = "none"
    /\ result = NoAnalysis

\* the filter panel over no issues
NoFilterPanel ==
    /\ allIssues = <<>>
    /\ filters = createDefaultFilters
    /\ filteredIssues = filterIssues(<<>>, createDefaultFilters)
    /\ stats = getFilterStats(<<>>, filterIssues(<<>>, createDefaultFilters))

InitFilter ==
    /\ allIssues \in SeqsUpTo(IssuePool, MaxIssues)
    /\ filters = createDefaultFilters
    /\ filteredIssues = filterIssues(allIssues, filters)
    /\ stats = getFilterStats(allIssues, filteredIssues)
    /\ NoAnalyzerCall
    /\ context = InitialContext
    /\ calls = <<>>
    /\ scan = NoScan
    /\ NoUI
    /\ scoring = NoScoring
    /\ NoComparison

TypeKey ==
    \E c \in TermChars :
        /\ Len(filters.searchTerm) < MaxTermLen
        /\ handleSearchChange(Append(filters.searchTerm, c))

EraseKey ==
    /\ filters.searchTerm # <<>>
    /\ handleSearchChange(SubSeq(filters.searchTerm, 1, Len(filters.searchTerm) - 1))

NextFilter ==
    \/ \E s \in Severities : handleSeverityToggle(s)
    \/ \E c \in PoolCategories : handleCategoryToggle(c)
    \/ TypeKey
    \/ EraseKey
    \/ handleClearFilters

SpecFilter == InitFilter /\ [][NextFilter]_vars


(***************************************************************************)
(* The analyzers over a text.  The texts are over CodeChars: all texts up  *)
(* to MaxLen, the bracket texts up to MaxBracketLen, the sample texts, and *)
(* the texts that repeat a short unit, with or without line breaks.        *)
(***************************************************************************)
CodeChars == {"(", ")", "[", "]", "{", "}", NL, "&", ";", "?", ":"}

BracketChars == {"(", ")", "[", "]", "{", "}"}

Samples ==
    { <<"{", "[", "(", ")", "]", "}">>,
      <<"{", "[", "(", "]", ")", "}">>,
      <<"{", "[">>,
      <<"{", NL, "}">>,
      <<"(", NL, "[", NL, "]", NL, ")">>,
      <<")", "?", "?", ":">>,
      <<"{", "}", NL, "&", "&", "&", ";", ";">> }

RECURSIVE Repeat(_, _)
Repeat(unit, k) == IF k = 0 THEN <<>> ELSE unit \o Repeat(unit, k - 1)

RECURSIVE RepeatLines(_, _)
RepeatLines(unit, k) ==
    IF k <= 1 THEN unit ELSE unit \o <<NL>> \o RepeatLines(unit, k - 1)

Units == SeqsUpTo(CodeChars \ {NL}, 2) \ {<<>>}

Texts ==
    SeqsUpTo(CodeChars, MaxLen)
    \cup SeqsUpTo(BracketChars \cup {NL}, MaxBracketLen)
    \cup Samples
    \cup {Repeat(u, k) : u \in Units, k \in 1..MaxRepeat}
    \cup {RepeatLines(u, k) : u \in Units, k \in 1..MaxRepeat}

Init ==
    /\ code \in Texts
    /\ analyzed = "none"
    /\ result = NoAnalysis
    /\ context = InitialContext
    /\ calls = <<>>
    /\ scan = NoScan
    /\ NoUI
    /\ NoFilterPanel
    /\ scoring = NoScoring
    /\ NoComparison

\* EnhancedSyntaxAnalyzer.analyzeSyntax(code)
AnalyzeSyntax ==
    /\ analyzed = "none"
    /\ analyzed' = "syntax"
    /\ result' = analyzeSyntax(code)
    /\ UNCHANGED <<code, context, filterVars, scoreVars, compareVars, historyVars, scanVars, uiVars>>

\* utils/analyzer.ts ReactCodeAnalyzer.analyzeCode(code)
AnalyzeCode ==
    /\ analyzed = "none"
    /\ analyzed' = "code"
    /\ result' = RCA_analyzeCode(code)
    /\ UNCHANGED <<code, context, filterVars, scoreVars, compareVars, historyVars, scanVars, uiVars>>

\* EnhancedSemanticAnalyzer.analyzeSemantics(code)
AnalyzeSemantics ==
    /\ analyzed = "none"
    /\ analyzed' = "semantics"
    /\ context' = initializeContext(code, split(code))
    /\ result' = analyzeSemantics(code)
    /\ UNCHANGED <<code, filterVars, scoreVars, compareVars, historyVars, scanVars, uiVars>>

\* components/CodeAnalyzer.tsx ReactCodeAnalyzer.analyzeCode(code)
AnalyzeCombined ==
    /\ analyzed = "none"
    /\ analyzed' = "combined"
    /\ result' = CA_analyzeCode(code)
    /\ UNCHANGED <<code, context, filterVars, scoreVars, compareVars, historyVars, scanVars, uiVars>>

Next ==
    \/ AnalyzeSyntax
    \/ AnalyzeCode
    \/ AnalyzeSemantics
    \/ AnalyzeCombined

Spec == Init /\ [][Next]_vars

(***************************************************************************)
(* The analyzers but EnhancedSemanticAnalyzer over texts with words: up to *)
(* MaxTokens of WordTokens in a row, and the sample lines of WordSamples.  *)
(***************************************************************************)
WordTokens == {W_map_call, W_key_attr, <<"<">>, <<">">>, <<" ">>, <<NL>>}

\* "if (a == b) {}\n"
LooseEqualityText ==
    <<"i", "f", " ", "(", "a", " ", "=", "=", " ", "b", ")", " ", "{", "}", NL>>

\* "if (a = b) {}"
AssignmentText ==
    <<"i", "f", " ", "(", "a", " ", "=", " ", "b", ")", " ", "{", "}">>

\* two lines with .map( and a line with key=
MapLinesText == W_map_call \o <<NL>> \o W_map_call \o <<NL>> \o W_key_attr
WordSamples == {LooseEqualityText, AssignmentText, MapLinesText}

WordTexts == {Flatten(ts) : ts \in SeqsUpTo(WordTokens, MaxTokens)} \cup WordSamples

InitWords ==
    /\ code \in WordTexts
    /\ analyzed = "none"
    /\ result = NoAnalysis
    /\ context = InitialContext
    /\ calls = <<>>
    /\ scan = NoScan
    /\ NoUI
    /\ NoFilterPanel
    /\ scoring = NoScoring
    /\ NoComparison

NextWords ==
    \/ AnalyzeSyntax
    \/ AnalyzeCode
    \/ AnalyzeCombined

SpecWords == InitWords /\ [][NextWords]_vars

(***************************************************************************)
(* generateSemanticScore from the point where its locals are set.  The     *)
(* issue lists hold a chosen number of issues of each category and the     *)
(* lines a chosen number of branching lines: every combination of the      *)
(* counts, which is at least what the texts produce.                       *)
(***************************************************************************)
CountChoices == {0, 1, 2, MaxCount}

RECURSIVE IssuesOf(_, _)
IssuesOf(category, n) ==
    IF n = 0 THEN <<>>
    ELSE Append(IssuesOf(category, n - 1),
                createSemanticIssue(Tmpl(<<category, "-">>, <<n>>), "warning", category,
                                    Lit(category), n, 0, "semantic", Lit(category)))

BranchLines(c) == IF c = 0 THEN << <<>> >> ELSE [k \in 1..c |-> <<"&", "&">>]

InitScore ==
    /\ \E n \in CountChoices, st \in CountChoices, m \in CountChoices,
          p \in CountChoices, a \in CountChoices, c \in 0..MaxBranchLines :
          scoring = [issues |-> IssuesOf("naming", n) \o IssuesOf("structure", st)
                                \o IssuesOf("maintainability", m)
                                \o IssuesOf("performance", p)
                                \o IssuesOf("accessibility", a),
                     lines |-> BranchLines(c)]
    /\ NoAnalyzerCall
    /\ context = InitialContext
    /\ calls = <<>>
    /\ scan = NoScan
    /\ NoUI
    /\ NoFilterPanel
    /\ NoComparison

\* generateSemanticScore returns
Score ==
    /\ analyzed = "none"
    /\ analyzed' = "score"
    /\ result' = ScoreFrom(scoring.issues, scoring.lines)
    /\ UNCHANGED <<code, context, filterVars, scoreVars, compareVars, historyVars, scanVars, uiVars>>

NextScore == Score

SpecScore == InitScore /\ [][NextScore]_vars

(***************************************************************************)
(* unnamed/part_002: FileComparisonView over a list of analyzed files.     *)
(* A selection is <<>> for null and <<index>> for a 0-based index.         *)
(***************************************************************************)
\* the metrics list of the metricComparisons memo
comparedMetrics == <<"complexity", "maintainability", "testability", "performance">>

\* metric.charAt(0).toUpperCase() + metric.slice(1)
MetricLabel(metric) ==
    CASE metric = "complexity" -> "Complexity"
      [] metric = "maintainability" -> "Maintainability"
      [] metric = "testability" -> "Testability"
      [] metric = "performance" -> "Performance"

\* analyzedFiles[selected], null when nothing is selected
SelectedFile(files, selected) ==
    IF selected = <<>> THEN <<>> ELSE << files[selected[1] + 1] >>

\* the memo naming A the winner of a tie
metricComparisonsOf_TieToA(fileA, fileB) ==
    IF fileA = <<>> \/ fileB = <<>> THEN <<>>
    ELSE [k \in 1..Len(comparedMetrics) |->
            LET metric == comparedMetrics[k]
                valueA == fileA[1].result.metrics[metric]
                valueB == fileB[1].result.metrics[metric]
                difference == valueA - valueB
            IN  [metric |-> MetricLabel(metric), fileA |-> valueA, fileB |-> valueB,
                 difference |-> difference,
                 winner |-> IF difference >= 0 THEN "A" ELSE "B"]]

\* the metricComparisons memo; fileA and fileB are <<>> for null, <<file>> else
metricComparisonsOf(fileA, fileB) ==
    IF fileA = <<>> \/ fileB = <<>> THEN <<>>
    ELSE [k \in 1..Len(comparedMetrics) |->
            LET metric == comparedMetrics[k]
                valueA == fileA[1].result.metrics[metric]
                valueB == fileB[1].result.metrics[metric]
                difference == valueA - valueB
                winner == IF difference > 0 THEN "A"
                          ELSE IF difference < 0 THEN "B"
                          ELSE "tie"
            IN  [metric |-> MetricLabel(metric), fileA |-> valueA, fileB |-> valueB,
                 difference |-> difference, winner |-> winner]]

\* what a render leaves in metricComparisons
Rendered(files, selectedA, selectedB) ==
    metricComparisonsOf(SelectedFile(files, selectedA), SelectedFile(files, selectedB))

\* the analyzed files at hand: metrics as the analyzers return them
FilePool ==
    { [name |-> "a.tsx",
       result |-> [metrics |-> [complexity |-> 10, maintainability |-> 10,
                                testability |-> 6, performance |-> 8]]],
      [name |-> "b.tsx",
       result |-> [metrics |-> [complexity |-> 1, maintainability |-> 10,
                                testability |-> 8, performance |-> 7]]],
      [name |-> "c.tsx",
       result |-> [metrics |-> [complexity |-> 11, maintainability |-> 4,
                                testability |-> 6, performance |-> 1]]],
      [name |-> "d.tsx",
       result |-> [metrics |-> [complexity |-> 10, maintainability |-> 10,
                                testability |-> 6, performance |-> 8]]] }

\* the view mounted over analyzedFiles and rendered once
InitCompare ==
    /\ analyzedFiles \in SeqsUpTo(FilePool, MaxFiles)
    /\ selectedFileA = IF Len(analyzedFiles) > 0 THEN <<0>> ELSE <<>>
    /\ selectedFileB = IF Len(analyzedFiles) > 1 THEN <<1>> ELSE <<>>
    /\ metricComparisons = Rendered(analyzedFiles, selectedFileA, selectedFileB)
    /\ NoAnalyzerCall
    /\ context = InitialContext
    /\ calls = <<>>
    /\ scan = NoScan
    /\ NoUI
    /\ NoFilterPanel
    /\ scoring = NoScoring

\* FileSelector "File A": onChange of an option that is not disabled
SelectA(index) ==
    /\ <<index>> # selectedFileB
    /\ <<index>> # selectedFileA
    /\ selectedFileA' = <<index>>
    /\ metricComparisons' = Rendered(analyzedFiles, <<index>>, selectedFileB)
    /\ UNCHANGED <<analyzedFiles, selectedFileB, filterVars, analysisVars, scoreVars, historyVars, scanVars, uiVars>>

\* FileSelector "File B"
SelectB(index) ==
    /\ <<index>> # selectedFileA
    /\ <<index>> # selectedFileB
    /\ selectedFileB' = <<index>>
    /\ metricComparisons' = Rendered(analyzedFiles, selectedFileA, <<index>>)
    /\ UNCHANGED <<analyzedFiles, selectedFileA, filterVars, analysisVars, scoreVars, historyVars, scanVars, uiVars>>

NextCompare ==
    \/ \E index \in 0..(Len(analyzedFiles) - 1) : SelectA(index)
    \/ \E index \in 0..(Len(analyzedFiles) - 1) : SelectB(index)

SpecCompare == InitCompare /\ [][NextCompare]_vars

(***************************************************************************)
(* The exported instances called again and again: enhancedSyntaxAnalyzer,  *)
(* analyzer (utils/analyzer.ts), enhancedSemanticAnalyzer, and the         *)
(* analyzer of CodeAnalyzer.tsx.  The only field a call assigns is         *)
(* EnhancedSemanticAnalyzer's this.context (initializeContext); the other  *)
(* fields are readonly tables, and every regular expression with the g     *)
(* flag is built inside the call that uses it.                             *)
(***************************************************************************)

\* The text "=>" makes detectComponentType answer 'functional'; no rule of
\* the four analyzers fires on it but those that fire on any such line.
SharedTexts ==
    { <<>>,
      W_arrow,
      <<"{">>,
      <<"{", NL, "}">>,
      <<")", "?", "?", ":">> }

Analyzers == {"syntax", "code", "semantics", "combined"}

\* a variant of the method that only fills the fields of this.context a
\* previous call left at their initial value
EnhancedSemanticAnalyzer_analyzeSemantics_ContextKept(this_context, pcode) ==
    [context |->
        IF this_context.componentType = "unknown"
        THEN initializeContext(pcode, split(pcode))
        ELSE this_context,
     result |-> analyzeSemantics(pcode)]

\* analyzeSemantics as a method: the instance's context when it is called,
\* the context it leaves and the result it returns.  The first statement
\* overwrites this.context, and no statement reads it.
EnhancedSemanticAnalyzer_analyzeSemantics(this_context, pcode) ==
    [context |-> initializeContext(pcode, split(pcode)),
     result |-> analyzeSemantics(pcode)]

\* what an instance constructed for this one call returns
FreshResult(analyzer, text) ==
    CASE analyzer = "syntax" -> analyzeSyntax(text)
      [] analyzer = "code" -> RCA_analyzeCode(text)
      [] analyzer = "semantics" ->
            EnhancedSemanticAnalyzer_analyzeSemantics(InitialContext, text).result
      [] analyzer = "combined" -> CA_analyzeCode(text)

InitShared ==
    /\ code = <<>>
    /\ analyzed = "none"
    /\ result = NoAnalysis
    /\ context = InitialContext
    /\ calls = <<>>
    /\ scan = NoScan
    /\ NoUI
    /\ NoFilterPanel
    /\ scoring = NoScoring
    /\ NoComparison

Called(analyzer, text) ==
    /\ Len(calls) < MaxCalls
    /\ calls' = Append(calls, [analyzer |-> analyzer, text |-> text, thrown |-> "none"])
    /\ code' = text
    /\ analyzed' = analyzer
    /\ UNCHANGED <<filterVars, scoreVars, compareVars, scanVars, uiVars>>

\* enhancedSyntaxAnalyzer.analyzeSyntax(text)
CallSyntax(text) ==
    /\ Called("syntax", text)
    /\ result' = analyzeSyntax(text)
    /\ UNCHANGED context

\* analyzer.analyzeCode(text), utils/analyzer.ts
CallCode(text) ==
    /\ Called("code", text)
    /\ result' = RCA_analyzeCode(text)
    /\ UNCHANGED context

\* enhancedSemanticAnalyzer.analyzeSemantics(text)
CallSemantics(text) ==
    LET call == EnhancedSemanticAnalyzer_analyzeSemantics(context, text)
    IN  /\ Called("semantics", text)
        /\ context' = call.context
        /\ result' = call.result

\* analyzer.analyzeCode(text), CodeAnalyzer.tsx
CallCombined(text) ==
    /\ Called("combined", text)
    /\ result' = CA_analyzeCode(text)
    /\ UNCHANGED context

NextShared ==
    \/ \E text \in SharedTexts : CallSyntax(text)
    \/ \E text \in SharedTexts : CallCode(text)
    \/ \E text \in SharedTexts : CallSemantics(text)
    \/ \E text \in SharedTexts : CallCombined(text)

SpecShared == InitShared /\ [][NextShared]_vars

(***************************************************************************)
(* A rule check that throws.  analyzeCode and analyzeSemantics evaluate    *)
(* their rule checks as the spread arguments of one issues.push call, in   *)
(* order; neither method nor any rule check has a try statement, so an     *)
(* exception thrown by a rule check completes the call.  What makes a      *)
(* check throw is left open (for one, the RangeError of a spread call with *)
(* more arguments than the engine takes, checkSyntaxRules 732-740).        *)
(***************************************************************************)

\* the rule checks of analyzeCode, in the order of its arguments
RCA_RuleChecks ==
    << "checkBasicReactRules", "checkTypeScriptRules", "checkAccessibilityRules",
       "checkPerformanceRules", "checkCodeQualityRules", "checkSemanticRules",
       "checkSyntaxRules", "checkOperatorsAndSymbols" >>

\* what a rule check of analyzeCode returns
RCA_RuleIssues(rule, pcode, lines) ==
    CASE rule = "checkBasicReactRules" -> checkBasicReactRules(pcode, lines)
      [] rule = "checkCodeQualityRules" -> checkCodeQualityRules(pcode, lines)
      [] rule = "checkSemanticRules" -> checkComponentStructure(pcode)
      [] rule = "checkSyntaxRules" -> checkSyntaxRules(pcode, lines)
      [] rule = "checkOperatorsAndSymbols" -> checkOperatorsAndSymbols(pcode, lines)
      [] OTHER -> <<>>

\* the analyses of analyzeSemantics, in the order of its arguments
ESA_Analyses ==
    << "analyzeNamingConventions", "analyzeComponentStructure", "analyzeLogicalFlow",
       "analyzeReactSemantics", "analyzeTypeScriptSemantics",
       "analyzeAccessibilitySemantics", "analyzePerformanceSemantics",
       "analyzeMaintainabilitySemantics", "analyzeArchitecturalPatterns",
       "analyzeCognitiveComplexity", "analyzeBusinessLogicSeparation" >>

\* what an analysis of analyzeSemantics returns
ESA_AnalysisIssues(rule, lines) ==
    CASE rule = "analyzeComponentStructure" -> analyzeComponentStructure(lines)
      [] rule = "analyzeLogicalFlow" -> analyzeLogicalFlow(lines)
      [] rule = "analyzeMaintainabilitySemantics" -> analyzeMaintainabilitySemantics(lines)
      [] rule = "analyzeCognitiveComplexity" -> analyzeCognitiveComplexity(lines)
      [] OTHER -> <<>>

\* a variant of the call that catches what a rule check throws and goes on
\* with the next one
RCA_analyzeCodeCompletion_CatchPerRule(pcode, throwing) ==
    LET lines == split(pcode)
        issues == Flatten([i \in DOMAIN RCA_RuleChecks |->
                      IF RCA_RuleChecks[i] \in throwing THEN <<>>
                      ELSE RCA_RuleIssues(RCA_RuleChecks[i], pcode, lines)])
    IN  [type |-> "return",
         value |-> [issues |-> issues,
                    metrics |-> RCA_calculateMetrics(pcode, issues),
                    summary |-> RCA_generateSummary(issues)]]

\* how a call analyzeCode(pcode) completes when the rule checks of
\* `throwing` throw: it returns its AnalysisResult when none of them does,
\* and throws otherwise
RCA_analyzeCodeCompletion(pcode, throwing) ==
    IF \E i \in DOMAIN RCA_RuleChecks : RCA_RuleChecks[i] \in throwing
    THEN [type |-> "throw", value |-> NoAnalysis]
    ELSE [type |-> "return", value |-> RCA_analyzeCode(pcode)]

\* the same for analyzeSemantics(pcode)
ESA_analyzeSemanticsCompletion(pcode, throwing) ==
    IF \E i \in DOMAIN ESA_Analyses : ESA_Analyses[i] \in throwing
    THEN [type |-> "throw", value |-> NoAnalysis]
    ELSE [type |-> "return", value |-> analyzeSemantics(pcode)]

ThrowTexts == SeqsUpTo(BracketChars \cup {NL}, MaxLen) \cup Samples

InitThrow ==
    /\ code \in ThrowTexts
    /\ analyzed = "none"
    /\ result = NoAnalysis
    /\ context = InitialContext
    /\ calls = <<>>
    /\ scan = NoScan
    /\ NoUI
    /\ NoFilterPanel
    /\ scoring = NoScoring
    /\ NoComparison

\* the caller's view of a completed call: the analyzer when it returned,
\* "thrown" when it threw, and the result it returned if any
Completed(analyzer, rule, completion) ==
    /\ analyzed = "none"
    /\ analyzed' = IF completion.type = "throw" THEN "thrown" ELSE analyzer
    /\ result' = completion.value
    /\ calls' = <<[analyzer |-> analyzer, text |-> code, thrown |-> rule]>>
    /\ UNCHANGED <<code, filterVars, scoreVars, compareVars, scanVars, uiVars>>

\* analyzer.analyzeCode(code), no rule check throwing
AnalyzeCodeReturning ==
    /\ Completed("code", "none", RCA_analyzeCodeCompletion(code, {}))
    /\ UNCHANGED context

\* analyzer.analyzeCode(code), one rule check throwing
AnalyzeCodeThrowing(rule) ==
    /\ Completed("code", rule, RCA_analyzeCodeCompletion(code, {rule}))
    /\ UNCHANGED context

\* enhancedSemanticAnalyzer.analyzeSemantics(code), no analysis throwing
AnalyzeSemanticsReturning ==
    /\ Completed("semantics", "none", ESA_analyzeSemanticsCompletion(code, {}))
    /\ context' = initializeContext(code, split(code))

\* enhancedSemanticAnalyzer.analyzeSemantics(code), one analysis throwing;
\* initializeContext has run before
AnalyzeSemanticsThrowing(rule) ==
    /\ Completed("semantics", rule, ESA_analyzeSemanticsCompletion(code, {rule}))
    /\ context' = initializeContext(code, split(code))

NextThrow ==
    \/ AnalyzeCodeReturning
    \/ \E i \in DOMAIN RCA_RuleChecks : AnalyzeCodeThrowing(RCA_RuleChecks[i])
    \/ AnalyzeSemanticsReturning
    \/ \E i \in DOMAIN ESA_Analyses : AnalyzeSemanticsThrowing(ESA_Analyses[i])

SpecThrow == InitThrow /\ [][NextThrow]_vars

(***************************************************************************)
(* EnhancedSyntaxAnalyzer.checkBracketMatching step by step: one step per  *)
(* character, one per end of line, and the forEach over the stack at the   *)
(* end.  The lines hold brackets, quotes, / * and the backslash.           *)
(***************************************************************************)
ScanChars == {"(", ")", "]", "'", "\"", "/", "*", "\\"}

ScanSamples ==
    { <<"/", "*", "*", "/", "(">>,
      <<"/", "*", "(", "*", "/", ")">>,
      <<"\"", "'", "\"", "(">>,
      <<"\"", "(", "\"", "(", ")">>,
      <<"\"", "\\", "\"", "\"", "(">>,
      <<"(", NL, "]", NL, ")">>,
      <<"(", "(", "]", ")", ")">> }

ScanTexts == SeqsUpTo(ScanChars, MaxScanLen) \cup ScanSamples

InitScan ==
    /\ code \in ScanTexts
    /\ analyzed = "none"
    /\ result = NoAnalysis
    /\ context = InitialContext
    /\ calls = <<>>
    /\ scan = NoScan
    /\ NoUI
    /\ NoFilterPanel
    /\ scoring = NoScoring
    /\ NoComparison

\* checkBracketMatching(code, lines) is entered: issues = [], stack = []
StartScan ==
    /\ scan.at = "idle"
    /\ scan' = [at |-> "scanning", lineIndex |-> 0, charIndex |-> 0,
                stack |-> <<>>, issues |-> <<>>]
    /\ UNCHANGED <<filterVars, analysisVars, scoreVars, compareVars, historyVars, uiVars>>

\* one turn of the loop over the characters of the line
ScanChar ==
    LET lines == split(code)
    IN  /\ scan.at = "scanning"
        /\ scan.lineIndex < Len(lines)
        /\ scan.charIndex < Len(lines[scan.lineIndex + 1])
        /\ LET st == CharStep([stack |-> scan.stack, issues |-> scan.issues],
                              lines, scan.lineIndex, scan.charIndex)
           IN  scan' = [scan EXCEPT !.stack = st.stack, !.issues = st.issues,
                                    !.charIndex = @ + 1]
        /\ UNCHANGED <<filterVars, analysisVars, scoreVars, compareVars, historyVars, uiVars>>

\* the loop over the characters ends, the loop over the lines goes on
ScanNextLine ==
    LET lines == split(code)
    IN  /\ scan.at = "scanning"
        /\ scan.lineIndex < Len(lines)
        /\ scan.charIndex >= Len(lines[scan.lineIndex + 1])
        /\ scan' = [scan EXCEPT !.lineIndex = @ + 1, !.charIndex = 0]
        /\ UNCHANGED <<filterVars, analysisVars, scoreVars, compareVars, historyVars, uiVars>>

\* stack.forEach(...) and return issues
FinishScan ==
    /\ scan.at = "scanning"
    /\ scan.lineIndex >= Len(split(code))
    /\ scan' = [scan EXCEPT !.at = "done",
                            !.issues = @ \o UnclosedIssues(scan.stack, 1)]
    /\ UNCHANGED <<filterVars, analysisVars, scoreVars, compareVars, historyVars, uiVars>>

NextScan ==
    \/ StartScan
    \/ ScanChar
    \/ ScanNextLine
    \/ FinishScan

SpecScan == InitScan /\ [][NextScan]_vars

(***************************************************************************)
(* components/CodeAnalyzer.tsx: the CodeAnalyzer component.  Its handlers  *)
(* are taken one synchronous stretch at a time: an async handler runs to   *)
(* its first await, waits in pending with the values its closure captured, *)
(* and goes on when the awaited promise settles.  State setters given a    *)
(* function see the state of that moment, the others what was captured.    *)
(***************************************************************************)

\* names of the files at hand
N_a_JS == <<"a", ".", "J", "S">>
N_n_txt == <<"n", ".", "t", "x", "t">>
ManualInput == <<"M", "a", "n", "u", "a", "l", " ", "I", "n", "p", "u", "t">>

\* String.prototype.substring(start)
substring(s, start) == SubSeq(s, Max(start, 0) + 1, Len(s))

validExtensions ==
    { <<".", "t", "s", "x">>, <<".", "t", "s">>, <<".", "j", "s", "x">>, <<".", "j", "s">> }

isValidFile(file) ==
    LET extension == substring(toLowerCase(file.name), lastIndexOf(file.name, <<".">>))
    IN  extension \in validExtensions

\* the File objects a browse or a drop can hand over
UploadPool ==
    { [name |-> N_a_JS, content |-> <<"{">>],
      [name |-> N_n_txt, content |-> <<"{">>] }

Batches == SeqsUpTo(UploadPool, MaxBatch)

\* { name, content, result } as handleFileUpload and analyzeCode build it
AnalyzedFileOf(name, content) ==
    [name |-> name, content |-> content, result |-> CA_analyzeCode(content)]

\* what JSON.parse makes of an imported file: parsed or not, and the files field
\* of the parsed value (<<>> when it is missing or no array)
ImportPool ==
    { [parsed |-> FALSE, files |-> <<>>],
      [parsed |-> TRUE, files |-> <<>>],
      [parsed |-> TRUE, files |-> << <<>> >>],
      [parsed |-> TRUE, files |-> << <<AnalyzedFileOf(N_a_JS, <<"{">>)>> >>] }

\* the texts the user has typed into the code area
UICodes == { <<"{">>, <<" ">> }
SessionNames == { <<"s">>, <<" ">> }

\* showNotification: the notification is appended to the list, from which the
\* timers remove the older ones; the list is kept by its last element
showNotification(shown, message, type) == <<[message |-> message, type |-> type]>>

Without(s, i) == SubSeq(s, 1, i - 1) \o SubSeq(s, i + 1, Len(s))

RECURSIVE SumLen(_)
SumLen(ops) ==
    IF ops = <<>> THEN 0
    ELSE (IF Head(ops).op = "upload" THEN Len(Head(ops).validFiles) ELSE 0) + SumLen(Tail(ops))

RECURSIVE LongestSession(_)
LongestSession(sessions) ==
    IF sessions = <<>> THEN 1
    ELSE Max(Len(Head(sessions).files), LongestSession(Tail(sessions)))

\* the files the list can come to hold once all that is under way has ended
Reach == Max(Len(analyzedFiles), LongestSession(savedSessions)) + SumLen(pending)

InitUI ==
    /\ code \in UICodes
    /\ analyzedFiles = <<>>
    /\ NoUI
    /\ selectedFileA = <<>>
    /\ selectedFileB = <<>>
    /\ metricComparisons = <<>>
    /\ analyzed = "none"
    /\ result = NoAnalysis
    /\ context = InitialContext
    /\ calls = <<>>
    /\ scan = NoScan
    /\ NoFilterPanel
    /\ scoring = NoScoring

UINotTouched ==
    UNCHANGED <<filterVars, analysisVars, scoreVars, selectedFileA, selectedFileB,
                metricComparisons, historyVars, scanVars>>

\* handleFileUpload that clears the selection when no file is accepted
handleFileUpload_Deselect(files) ==
    LET validFiles == SelectSeq(files, isValidFile)
    IN  IF validFiles = <<>>
        THEN /\ notifications' = showNotification(notifications,
                    Lit("Please upload valid React/TypeScript files (.tsx, .ts, .jsx, .js)"), "error")
             /\ selectedFileIndex' = -1
             /\ UNCHANGED <<analyzedFiles, isAnalyzing, pending, savedSessions>>
        ELSE /\ Len(pending) < MaxPending
             /\ Reach + Len(validFiles) <= MaxListed
             /\ isAnalyzing' = TRUE
             /\ pending' = Append(pending,
                    [op |-> "upload", validFiles |-> validFiles, reading |-> 1,
                     newAnalyzedFiles |-> <<>>, length |-> Len(analyzedFiles)])
             /\ UNCHANGED <<analyzedFiles, selectedFileIndex, notifications, savedSessions>>

\* handleFileUpload(files) up to its first await
handleFileUpload(files) ==
    LET validFiles == SelectSeq(files, isValidFile)
    IN  IF validFiles = <<>>
        THEN /\ notifications' = showNotification(notifications,
                    Lit("Please upload valid React/TypeScript files (.tsx, .ts, .jsx, .js)"), "error")
             /\ UNCHANGED <<analyzedFiles, selectedFileIndex, isAnalyzing, pending, savedSessions>>
        ELSE /\ Len(pending) < MaxPending
             /\ Reach + Len(validFiles) <= MaxListed
             /\ isAnalyzing' = TRUE
             /\ pending' = Append(pending,
                    [op |-> "upload", validFiles |-> validFiles, reading |-> 1,
                     newAnalyzedFiles |-> <<>>, length |-> Len(analyzedFiles)])
             /\ UNCHANGED <<analyzedFiles, selectedFileIndex, notifications, savedSessions>>

\* FileUploadSection: the file input behind the Browse button
BrowseFiles(files) ==
    /\ ~isAnalyzing
    /\ files # <<>>
    /\ handleFileUpload(files)
    /\ UINotTouched

\* handleDrop: the drop zone
DropFiles(files) ==
    /\ handleFileUpload(files)
    /\ UINotTouched

\* readFileContent resolves for the file being read: it is analyzed and pushed,
\* and either the next file is read or the batch is added to the list
ReadCompletes(i) ==
    /\ i \in 1..Len(pending)
    /\ pending[i].op = "upload"
    /\ LET this == pending[i]
           file == this.validFiles[this.reading]
           newAnalyzedFiles == Append(this.newAnalyzedFiles, AnalyzedFileOf(file.name, file.content))
       IN  IF this.reading < Len(this.validFiles)
           THEN /\ pending' = [pending EXCEPT ![i].reading = @ + 1,
                                              ![i].newAnalyzedFiles = newAnalyzedFiles]
                /\ UNCHANGED <<analyzedFiles, selectedFileIndex, isAnalyzing,
                               notifications, savedSessions>>
           ELSE /\ analyzedFiles' = analyzedFiles \o newAnalyzedFiles
                /\ selectedFileIndex' = this.length
                /\ notifications' = showNotification(notifications,
                       Tmpl(<<"Successfully analyzed ", " file(s)">>, <<Len(newAnalyzedFiles)>>),
                       "success")
                /\ isAnalyzing' = FALSE
                /\ pending' = Without(pending, i)
                /\ UNCHANGED savedSessions
    /\ UINotTouched

\* readFileContent rejects for the file being read: catch, then finally
ReadFails(i) ==
    /\ i \in 1..Len(pending)
    /\ pending[i].op = "upload"
    /\ notifications' = showNotification(notifications,
           Lit("Error processing files. Please try again."), "error")
    /\ isAnalyzing' = FALSE
    /\ pending' = Without(pending, i)
    /\ UNCHANGED <<analyzedFiles, selectedFileIndex, savedSessions>>
    /\ UINotTouched

\* analyzeCode up to its await; CodeInputSection disables the button
StartAnalyzeCode ==
    /\ ~(isAnalyzing \/ trim(code) = <<>>)
    /\ Len(pending) < MaxPending
    /\ isAnalyzing' = TRUE
    /\ pending' = Append(pending, [op |-> "analyze", code |-> code])
    /\ UNCHANGED <<analyzedFiles, selectedFileIndex, notifications, savedSessions>>
    /\ UINotTouched

\* analyzeCode after the second has passed
FinishAnalyzeCode(i) ==
    /\ i \in 1..Len(pending)
    /\ pending[i].op = "analyze"
    /\ LET manualFile == AnalyzedFileOf(ManualInput, pending[i].code)
           filtered == SelectSeq(analyzedFiles, LAMBDA f : f.name # ManualInput)
       IN  analyzedFiles' = <<manualFile>> \o filtered
    /\ selectedFileIndex' = 0
    /\ isAnalyzing' = FALSE
    /\ notifications' = showNotification(notifications, Lit("Code analysis completed"), "success")
    /\ pending' = Without(pending, i)
    /\ UNCHANGED savedSessions
    /\ UINotTouched

\* removeFile(index); FileUploadSection shows the button for uploaded files
\* and disables it while isAnalyzing
removeFile(index) ==
    /\ index \in 0..(Len(analyzedFiles) - 1)
    /\ analyzedFiles[index + 1].name # ManualInput
    /\ ~isAnalyzing
    /\ analyzedFiles' = Without(analyzedFiles, index + 1)
    /\ selectedFileIndex' =
            IF selectedFileIndex = index
            THEN (IF Len(analyzedFiles) > 1 THEN 0 ELSE -1)
            ELSE IF selectedFileIndex > index THEN selectedFileIndex - 1
            ELSE selectedFileIndex
    /\ notifications' = showNotification(notifications, Lit("File removed from analysis"), "success")
    /\ UNCHANGED <<isAnalyzing, pending, savedSessions>>
    /\ UINotTouched

\* onFileSelect={setSelectedFileIndex}, from a row of the list
SelectFileIndex(index) ==
    /\ index \in 0..(Len(analyzedFiles) - 1)
    /\ selectedFileIndex' = index
    /\ UNCHANGED <<analyzedFiles, isAnalyzing, notifications, pending, savedSessions>>
    /\ UINotTouched

\* saveSession with sessionName as typed
saveSession(sessionName) ==
    /\ IF analyzedFiles = <<>>
       THEN /\ notifications' = showNotification(notifications,
                   Lit("No analysis results to save"), "error")
            /\ UNCHANGED savedSessions
       ELSE IF trim(sessionName) = <<>>
       THEN /\ notifications' = showNotification(notifications,
                   Lit("Please enter a session name"), "error")
            /\ UNCHANGED savedSessions
       ELSE /\ Len(savedSessions) < MaxSessions
            /\ savedSessions' = Append(savedSessions,
                   [name |-> trim(sessionName), files |-> analyzedFiles])
            /\ notifications' = showNotification(notifications,
                   Lit("Session saved successfully"), "success")
    /\ UNCHANGED <<analyzedFiles, selectedFileIndex, isAnalyzing, pending>>
    /\ UINotTouched

loadSession(k) ==
    /\ k \in 1..Len(savedSessions)
    /\ LET session == savedSessions[k]
       IN  /\ analyzedFiles' = session.files
           /\ selectedFileIndex' = IF Len(session.files) > 0 THEN 0 ELSE -1
           /\ notifications' = showNotification(notifications,
                  Tmpl(<<"Session \"", session.name, "\" loaded successfully">>, <<>>), "success")
    /\ UNCHANGED <<isAnalyzing, pending, savedSessions>>
    /\ UINotTouched

deleteSession(k) ==
    /\ k \in 1..Len(savedSessions)
    /\ savedSessions' = Without(savedSessions, k)
    /\ notifications' = showNotification(notifications, Lit("Session deleted"), "success")
    /\ UNCHANGED <<analyzedFiles, selectedFileIndex, isAnalyzing, pending>>
    /\ UINotTouched

\* importSession(file): reader.readAsText(file)
importSession(file) ==
    /\ Len(pending) < MaxPending
    /\ pending' = Append(pending, [op |-> "import", file |-> file])
    /\ UNCHANGED <<analyzedFiles, selectedFileIndex, isAnalyzing, notifications, savedSessions>>
    /\ UINotTouched

\* reader.onload of importSession
ImportLoaded(i) ==
    /\ i \in 1..Len(pending)
    /\ pending[i].op = "import"
    /\ LET sessionData == pending[i].file
       IN  IF ~sessionData.parsed
           THEN /\ notifications' = showNotification(notifications,
                       Lit("Error loading session file"), "error")
                /\ UNCHANGED <<analyzedFiles, selectedFileIndex>>
           ELSE IF sessionData.files # <<>>
           THEN /\ analyzedFiles' = sessionData.files[1]
                /\ selectedFileIndex' = IF Len(sessionData.files[1]) > 0 THEN 0 ELSE -1
                /\ notifications' = showNotification(notifications,
                       Lit("Session loaded successfully"), "success")
           ELSE /\ notifications' = showNotification(notifications,
                       Lit("Invalid session file format"), "error")
                /\ UNCHANGED <<analyzedFiles, selectedFileIndex>>
    /\ pending' = Without(pending, i)
    /\ UNCHANGED <<isAnalyzing, savedSessions>>
    /\ UINotTouched

NextUI ==
    \/ \E files \in Batches : BrowseFiles(files)
    \/ \E files \in Batches : DropFiles(files)
    \/ \E i \in 1..MaxPending : ReadCompletes(i)
    \/ \E i \in 1..MaxPending : ReadFails(i)
    \/ StartAnalyzeCode
    \/ \E i \in 1..MaxPending : FinishAnalyzeCode(i)
    \/ \E index \in 0..(2 * MaxListed) : removeFile(index)
    \/ \E index \in 0..(2 * MaxListed) : SelectFileIndex(index)
    \/ \E sessionName \in SessionNames : saveSession(sessionName)
    \/ \E k \in 1..MaxSessions : loadSession(k)
    \/ \E k \in 1..MaxSessions : deleteSession(k)
    \/ \E file \in ImportPool : importSession(file)
    \/ \E i \in 1..MaxPending : ImportLoaded(i)

SpecUI == InitUI /\ [][NextUI]_vars

(***************************************************************************)
(* Notions the properties are stated in, defined apart from the code       *)
(***************************************************************************)
\* the matching closer of an opener
Closer(c) == CASE c = "(" -> ")" [] c = "[" -> "]" [] c = "{" -> "}" [] OTHER -> "none"

\* delete adjacent matching pairs until none is left
RECURSIVE Reduce(_)
Reduce(s) ==
    LET pairs == {k \in 1..(Len(s) - 1) : s[k + 1] = Closer(s[k])}
    IN  IF pairs = {} THEN s
        ELSE LET k == CHOOSE k \in pairs : TRUE
             IN  Reduce(SubSeq(s, 1, k - 1) \o SubSeq(s, k + 2, Len(s)))

\* the bracket tokens of a text are well-nested over the whole text
WellNested(text) ==
    LET isBracket(c) == c \in BracketChars
    IN  Reduce(SelectSeq(text, isBracket)) = <<>>

BracketOnly(text) == \A k \in 1..Len(text) : text[k] \in BracketChars \cup {NL}

\* the openers without a closer at the end of the text, with the line and
\* the 1-based column of each, in the order of the text
RECURSIVE OpenersLeft(_, _, _, _, _)
OpenersLeft(text, i, line, col, open) ==
    IF i > Len(text) THEN open
    ELSE IF text[i] = NL THEN OpenersLeft(text, i + 1, line + 1, 1, open)
    ELSE IF text[i] \in {"(", "[", "{"} THEN
        OpenersLeft(text, i + 1, line, col + 1, Append(open, <<line, col>>))
    ELSE IF text[i] \in {")", "]", "}"} THEN
        OpenersLeft(text, i + 1, line, col + 1,
                    IF open = <<>> THEN open ELSE SubSeq(open, 1, Len(open) - 1))
    ELSE OpenersLeft(text, i + 1, line, col + 1, open)

\* the issues of the bracket validator among the issues of a result
BracketIssues(issues) ==
    LET p(i) == i.rule = "syntax/bracket-matching" IN SelectSeq(issues, p)

IdStarts(issue, prefix) == issue.id.text[1] = prefix

UnclosedOf(issues) ==
    LET p(i) == IdStarts(i, "unclosed-") IN SelectSeq(BracketIssues(issues), p)

Positions(issues) == [k \in 1..Len(issues) |-> <<issues[k].line, issues[k].column>>]

BracketRules ==
    {"syntax/bracket-matching", "syntax/code-structure", "syntax/unclosed-brackets"}

MetricNames ==
    {"complexity", "maintainability", "testability", "performance", "semanticQuality",
     "syntaxQuality", "typeQuality", "operatorQuality", "symbolQuality"}

CoreMetricNames == {"complexity", "maintainability", "testability", "performance"}

\* the sub-list of the issues satisfying P, in their order
SubList(issues, P(_)) ==
    LET K == {k \in 1..Len(issues) : P(issues[k])}
    IN  [j \in 1..Cardinality(K) |->
            issues[CHOOSE k \in K : Cardinality({m \in K : m <= k}) = j]]

UpperChar(c) == CASE c = "a" -> "A" [] c = "b" -> "B" [] OTHER -> c

\* term occurs in text, letters compared without regard to case
OccursIgnoringCase(term, text) ==
    \E i \in 0..(Len(text) - Len(term)) :
        \A j \in 1..Len(term) : UpperChar(text[i + j]) = UpperChar(term[j])

OccursInFields(term, issue) ==
    \/ OccursIgnoringCase(term, issue.message)
    \/ OccursIgnoringCase(term, issue.category)
    \/ OccursIgnoringCase(term, issue.rule)
    \/ \E k \in 1..Len(issue.suggestion) : OccursIgnoringCase(term, issue.suggestion[k])

OnlyWhiteSpace(term) == \A k \in 1..Len(term) : term[k] \in {" ", "\t", "\n", "\r"}

\* the predicate with "the search term is empty"
EmptyTermPredicate(issue, C) ==
    /\ (C.severity = {} \/ issue.type \in C.severity)
    /\ (C.categories = {} \/ issue.category \in C.categories)
    /\ (C.searchTerm = <<>> \/ OccursInFields(C.searchTerm, issue))

\* the predicate with "the search term is empty or only white space"
BlankTermPredicate(issue, C) ==
    /\ (C.severity = {} \/ issue.type \in C.severity)
    /\ (C.categories = {} \/ issue.category \in C.categories)
    /\ (OnlyWhiteSpace(C.searchTerm) \/ OccursInFields(C.searchTerm, issue))

RECURSIVE SumOver(_, _)
SumOver(f, D) ==
    IF D = {} THEN 0
    ELSE LET d == CHOOSE d \in D : TRUE IN f[d] + SumOver(f, D \ {d})

CountWhere(issues, P(_)) == Cardinality({k \in 1..Len(issues) : P(issues[k])})

(***************************************************************************)
(* Properties                                                              *)
(***************************************************************************)
\* C1: the result of analyzeCode (utils/analyzer.ts), of analyzeSyntax and of
\* the combined analyzeCode (CodeAnalyzer.tsx) has
\* summary.errors + summary.warnings + summary.info = summary.total = issues.length.
C1_SummaryAddsUp ==
    analyzed \in {"code", "syntax", "combined"} =>
        /\ result.summary.errors + result.summary.warnings + result.summary.info
               = result.summary.total
        /\ result.summary.total = Len(result.issues)

\* a result of utils/analyzer.ts with issues of all three severities
C1_Witness ==
    /\ analyzed = "code"
    /\ result.summary.errors > 0
    /\ result.summary.warnings > 0
    /\ result.summary.info > 0

\* C2: every one of the nine metrics of analyzeCode (utils/analyzer.ts) is an
\* integer in 1..10, for the empty text and for texts with many issues alike.
C2_MetricsInRange ==
    analyzed = "code" =>
        /\ DOMAIN result.metrics = MetricNames
        /\ \A m \in MetricNames : result.metrics[m] \in 1..10

\* a text with so many issues that the unclamped scores would be below 1
C2_Witness ==
    /\ analyzed = "code"
    /\ 10 - (Len(result.issues) \div 4) < 1
    /\ 10 - CountCategory(result.issues, "Syntax") < 1
    /\ result.metrics.maintainability = 1
    /\ result.metrics.syntaxQuality = 1

\* C3: each of complexity, maintainability, testability and performance in the
\* result of analyzeSemantics lies in 1..10, however many control-flow
\* constructs or issues the text has.
C3_CoreMetricsInRange ==
    analyzed = "semantics" =>
        \A m \in CoreMetricNames : result.metrics[m] \in 1..10

\* C4: filterIssues(I, createDefaultFilters()) is I: under the default filters
\* the filtered list is the whole list, in the same order.
C4_DefaultFiltersKeepAll ==
    filters = createDefaultFilters => filteredIssues = allIssues

\* the default filters over a list of two issues of different severities
C4_Witness ==
    /\ filters = createDefaultFilters
    /\ Len(allIssues) >= 2
    /\ allIssues[1].type # allIssues[2].type
    /\ filteredIssues = allIssues

\* C5: filterIssues is idempotent: filtering the filtered list again with the
\* same criteria gives the filtered list.
C5_FilterIdempotent ==
    filterIssues(filteredIssues, filters) = filteredIssues

\* criteria that drop one issue and keep another
C5_Witness ==
    /\ filters.searchTerm # <<>>
    /\ filters.severity # Severities
    /\ Len(filteredIssues) >= 1
    /\ Len(filteredIssues) < Len(allIssues)

\* C6 as stated: filterIssues(I, C) is the sub-list of I, in I's order, of the
\* issues with (severity empty or type in it) and (categories empty or category
\* in it) and (searchTerm empty or the term occurs, ignoring case, in message,
\* category, rule or suggestion).
C6_EmptyTermSubList ==
    LET P(issue) == EmptyTermPredicate(issue, filters)
    IN  filteredIssues = SubList(allIssues, P)

\* C6 with the search term void when it is empty or only white space: in every
\* step of the filter panel the filtered list is the sub-list of the issues
\* satisfying the predicate, in their order, and the list of all issues is the
\* same before and after.
C6_BlankTermSubList ==
    [][ LET P(issue) == BlankTermPredicate(issue, filters)
            Q(issue) == BlankTermPredicate(issue, filters')
        IN  /\ filteredIssues = SubList(allIssues, P)
            /\ filteredIssues' = SubList(allIssues', Q)
            /\ allIssues' = allIssues ]_vars

\* a search term of one blank keeps an issue none of whose fields has a blank
C6_Witness ==
    /\ filters.searchTerm = <<" ">>
    /\ \E k \in 1..Len(filteredIssues) : ~OccursInFields(<<" ">>, filteredIssues[k])
    /\ Len(filteredIssues) = Len(allIssues)

\* C7: totalIssues, bySeverity and byCategory of getFilterStats are those of
\* the list of all issues whatever the filtered list is, filteredIssues is the
\* length of the filtered list, and the severities and the categories both add
\* up to totalIssues.
C7_StatsFromAll ==
    LET isError(i) == i.type = "error"
        isWarning(i) == i.type = "warning"
        isInfo(i) == i.type = "info"
        categories == {allIssues[k].category : k \in 1..Len(allIssues)}
    IN  /\ stats.totalIssues = Len(allIssues)
        /\ stats.filteredIssues = Len(filteredIssues)
        /\ stats.bySeverity.error = CountWhere(allIssues, isError)
        /\ stats.bySeverity.warning = CountWhere(allIssues, isWarning)
        /\ stats.bySeverity.info = CountWhere(allIssues, isInfo)
        /\ DOMAIN stats.byCategory = categories
        /\ \A c \in categories :
              stats.byCategory[c] = Cardinality({k \in 1..Len(allIssues) :
                                                    allIssues[k].category = c})
        /\ stats.bySeverity.error + stats.bySeverity.warning + stats.bySeverity.info
               = stats.totalIssues
        /\ SumOver(stats.byCategory, DOMAIN stats.byCategory) = stats.totalIssues

\* the statistics of a list of which the filters keep a part
C7_Witness ==
    /\ Len(allIssues) >= 2
    /\ Len(filteredIssues) = 1
    /\ stats.filteredIssues = 1
    /\ stats.totalIssues = Len(allIssues)
    /\ Cardinality(DOMAIN stats.byCategory) = 2

\* C8: for a text of brackets and line breaks only, checkBracketMatching of
\* EnhancedSyntaxAnalyzer gives no issue exactly when the brackets are
\* well-nested over the whole text; "{[()]}" gives none and "{[(])}" gives a
\* mismatch issue.
C8_NoIssueIffWellNested ==
    analyzed = "syntax" /\ BracketOnly(code) =>
        /\ BracketIssues(result.issues) = <<>> <=> WellNested(code)
        /\ code = <<"{", "[", "(", ")", "]", "}">> => BracketIssues(result.issues) = <<>>
        /\ code = <<"{", "[", "(", "]", ")", "}">> =>
              \E k \in 1..Len(result.issues) : IdStarts(result.issues[k], "mismatched-")

\* the crossed text "{[(])}" with its mismatch issue
C8_Witness ==
    /\ analyzed = "syntax"
    /\ code = <<"{", "[", "(", "]", ")", "}">>
    /\ ~WellNested(code)
    /\ \E k \in 1..Len(result.issues) :
          /\ result.issues[k].rule = "syntax/bracket-matching"
          /\ IdStarts(result.issues[k], "mismatched-")

\* C9: at the end of the input checkBracketMatching of EnhancedSyntaxAnalyzer
\* gives one unclosed issue for each opener left open, with the line and the
\* column of that opener, in the order of the openers in the text; "{[" gives
\* two, at line 1 column 1 and line 1 column 2.
C9_UnclosedPerOpener ==
    analyzed = "syntax" =>
        /\ Positions(UnclosedOf(result.issues)) = OpenersLeft(code, 1, 1, 1, <<>>)
        /\ code = <<"{", "[">> =>
              Positions(UnclosedOf(result.issues)) = << <<1, 1>>, <<1, 2>> >>

\* openers left open on two lines, behind a closer without an opener
C9_Witness ==
    /\ analyzed = "syntax"
    /\ code = <<")", "{", NL, "[">>
    /\ Positions(UnclosedOf(result.issues)) = << <<1, 2>>, <<2, 1>> >>

\* C10: for a text whose brackets are well-nested over the whole text, an
\* opener and its closer on different lines included, analyzeCode of
\* utils/analyzer.ts gives no issue of the rules syntax/bracket-matching,
\* syntax/code-structure and syntax/unclosed-brackets.
C10_NoBracketIssueWhenWellNested ==
    analyzed = "code" /\ WellNested(code) =>
        \A k \in 1..Len(result.issues) : result.issues[k].rule \notin BracketRules

\* the bands of the grades, from the lowest to the highest
GradeBands ==
    << [lo |-> 0, hi |-> 39, grade |-> "F"],   [lo |-> 40, hi |-> 44, grade |-> "D"],
       [lo |-> 45, hi |-> 49, grade |-> "D+"], [lo |-> 50, hi |-> 54, grade |-> "C-"],
       [lo |-> 55, hi |-> 59, grade |-> "C"],  [lo |-> 60, hi |-> 64, grade |-> "C+"],
       [lo |-> 65, hi |-> 69, grade |-> "B-"], [lo |-> 70, hi |-> 74, grade |-> "B"],
       [lo |-> 75, hi |-> 79, grade |-> "B+"], [lo |-> 80, hi |-> 84, grade |-> "A-"],
       [lo |-> 85, hi |-> 89, grade |-> "A"],  [lo |-> 90, hi |-> 100, grade |-> "A+"] >>

BandsOf(score) ==
    {k \in 1..Len(GradeBands) : GradeBands[k].lo <= score /\ score <= GradeBands[k].hi}

\* the place of a grade in the order of the grades, 0 for no grade
GradeRank(g) ==
    LET ks == {k \in 1..Len(GradeBands) : GradeBands[k].grade = g}
    IN  IF ks = {} THEN 0 ELSE CHOOSE k \in ks : TRUE

\* over 0..100 the grade chain gives every score the grade of its one band,
\* and never a lower grade to a higher score
GradeChainSound ==
    /\ \A x \in 0..100 :
          /\ Cardinality(BandsOf(x)) = 1
          /\ \A k \in BandsOf(x) : ScoreGrade(x) = GradeBands[k].grade
    /\ \A x \in 0..100 : \A y \in x..100 :
          GradeRank(ScoreGrade(x)) >= 1 /\ GradeRank(ScoreGrade(x)) <= GradeRank(ScoreGrade(y))
    /\ ScoreGrade(90) = "A+"
    /\ ScoreGrade(89) = "A"
    /\ ScoreGrade(0) = "F"

\* the weighted sum of a breakdown, in hundredths, with the weights of C12
WeightedHundredths(b) ==
    15 * b.naming + 25 * b.structure + 20 * b.complexity + 20 * b.maintainability
    + 10 * b.performance + 10 * b.accessibility

\* C11: the grade of generateSemanticScore is a total, monotonic function of
\* the overall score in 0..100 with bands that do not overlap (90, 85, 80, 75,
\* 70, 65, 60, 55, 50, 45, 40, below 40 is F): 90 gives A+, 89 gives A, 0 gives
\* F, and the grade returned is the grade of the band of the score returned.
C11_GradeOfBand ==
    /\ GradeChainSound
    /\ analyzed = "score" =>
          /\ result.overallScore \in 0..100
          /\ \A k \in BandsOf(result.overallScore) : result.grade = GradeBands[k].grade

\* a score on the upper edge of the A band
C11_Witness ==
    /\ analyzed = "score"
    /\ result.overallScore = 89
    /\ result.grade = "A"

\* C12: the overall score of generateSemanticScore is an integer in 0..100,
\* the weighted sum of the six scores of the breakdown (each in 0..100, weights
\* 15, 25, 20, 20, 10, 10, summing to 100) rounded to the nearest integer.
C12_RoundedWeightedSum ==
    /\ SumOver(ScoreWeights, DOMAIN ScoreWeights) = 100
    /\ analyzed = "score" =>
          /\ DOMAIN result.breakdown = DOMAIN ScoreWeights
          /\ \A d \in DOMAIN result.breakdown : result.breakdown[d] \in 0..100
          /\ result.overallScore \in 0..100
          /\ 100 * result.overallScore - 50 <= WeightedHundredths(result.breakdown)
          /\ WeightedHundredths(result.breakdown) < 100 * result.overallScore + 50

\* a breakdown with a score held at 0 whose weighted sum ends in one half
C12_Witness ==
    /\ analyzed = "score"
    /\ result.breakdown.performance = 0
    /\ Len(scoring.issues) > 10
    /\ WeightedHundredths(result.breakdown) % 100 = 50
    /\ 100 * result.overallScore = WeightedHundredths(result.breakdown) + 50

\* t occurs in s
Occurs(t, s) ==
    \E i \in 0..(Len(s) - Len(t)) : \A j \in 1..Len(t) : s[i + j] = t[j]

IsMissingKey(issue) == issue.id.text = <<"missing-key-">> \/ issue.rule = "react/jsx-key"

\* C13: in the result of either analyzeCode, a line that contains .map( and no key=
\* has exactly one missing-key issue, whose line and id carry that line's
\* number; a line that contains both has none.
C13_MissingKeyPerLine ==
    analyzed \in {"code", "combined"} =>
        \A k \in 1..Len(split(code)) :
            LET line == split(code)[k]
                onLine(issue) == IsMissingKey(issue) /\ issue.line = k
                named(issue) == /\ onLine(issue)
                                /\ issue.id = Tmpl(<<"missing-key-">>, <<k>>)
            IN  /\ Occurs(W_map_call, line) /\ ~Occurs(W_key_attr, line)
                        => /\ CountWhere(result.issues, onLine) = 1
                           /\ CountWhere(result.issues, named) = 1
                /\ Occurs(W_map_call, line) /\ Occurs(W_key_attr, line)
                        => CountWhere(result.issues, onLine) = 0

\* ".map(key=\n.map(": the key on the first line only
C13_Witness ==
    /\ analyzed = "code"
    /\ code = W_map_call \o W_key_attr \o <<NL>> \o W_map_call
    /\ CountWhere(result.issues, IsMissingKey) = 1
    /\ \E k \in 1..Len(result.issues) :
            IsMissingKey(result.issues[k]) /\ result.issues[k].line = 2

\* C14: analyzeCode of "if (a == b) {}\n" yields a loose-equality issue and
\* an empty-block issue, both on line 1.
C14_LooseEqualityAndEmptyBlock ==
    analyzed = "code" /\ code = LooseEqualityText =>
        /\ \E k \in 1..Len(result.issues) :
                /\ result.issues[k].id.text = <<"loose-equality-">>
                /\ result.issues[k].line = 1
        /\ \E k \in 1..Len(result.issues) :
                /\ result.issues[k].id.text = <<"empty-block-">>
                /\ result.issues[k].line = 1

\* C16: the ids of the issues of one analyzeCode call are pairwise distinct.
C16_IdsDistinct ==
    analyzed = "code" =>
        \A i, j \in 1..Len(result.issues) :
            i # j => result.issues[i].id # result.issues[j].id

\* C17: every issue of analyzeCode and of analyzeSyntax has line >= 1 and
\* column >= 0.
C17_PositionsInRange ==
    analyzed \in {"code", "syntax"} =>
        \A k \in 1..Len(result.issues) :
            result.issues[k].line >= 1 /\ result.issues[k].column >= 0

\* C20: the byCategory counts of the summary of analyzeCode sum to
\* summary.total.
C20_ByCategoryAddsUp ==
    analyzed = "code" =>
        SumOver(result.summary.byCategory, DOMAIN result.summary.byCategory)
            = result.summary.total

\* the file a selection of the view stands for
FileOf(selected) == analyzedFiles[selected[1] + 1]

\* the winner the difference d calls for
WinnerOf(d) == IF d > 0 THEN "A" ELSE IF d < 0 THEN "B" ELSE "tie"

\* A and B exchanged
Swapped(winner) == CASE winner = "A" -> "B" [] winner = "B" -> "A" [] OTHER -> winner

\* C15: with two files selected, the comparison holds for each of the four
\* core metrics difference = valueA - valueB and winner 'A', 'B' or 'tie' as
\* the difference is positive, negative or zero; comparing the files the
\* other way round negates every difference and exchanges the winners A and
\* B; comparing a file with itself, or two files of equal metrics, gives
\* difference 0 and winner 'tie' throughout.
C15_ComparisonOfMetrics ==
    selectedFileA # <<>> /\ selectedFileB # <<>> =>
        LET A == FileOf(selectedFileA)
            B == FileOf(selectedFileB)
            back == metricComparisonsOf(<<B>>, <<A>>)
            self == metricComparisonsOf(<<A>>, <<A>>)
        IN  /\ {metricComparisons[k].metric : k \in DOMAIN metricComparisons}
                    = {MetricLabel(m) : m \in CoreMetricNames}
            /\ Len(metricComparisons) = Cardinality(CoreMetricNames)
            /\ \A m \in CoreMetricNames :
                  \E k \in DOMAIN metricComparisons :
                    LET c == metricComparisons[k]
                    IN  /\ c.metric = MetricLabel(m)
                        /\ c.fileA = A.result.metrics[m]
                        /\ c.fileB = B.result.metrics[m]
                        /\ c.difference = A.result.metrics[m] - B.result.metrics[m]
                        /\ c.winner = WinnerOf(c.difference)
                        /\ (c.winner = "A") = (c.difference > 0)
                        /\ (c.winner = "B") = (c.difference < 0)
                        /\ (c.winner = "tie") = (c.difference = 0)
            /\ \A k \in DOMAIN metricComparisons :
                  /\ back[k].metric = metricComparisons[k].metric
                  /\ back[k].difference = 0 - metricComparisons[k].difference
                  /\ back[k].winner = Swapped(metricComparisons[k].winner)
                  /\ self[k].difference = 0 /\ self[k].winner = "tie"
            /\ A.result = B.result =>
                  \A k \in DOMAIN metricComparisons :
                    /\ metricComparisons[k].difference = 0
                    /\ metricComparisons[k].winner = "tie"

\* the selection exchanged through a third file, each winner present
C15_Witness ==
    /\ selectedFileA = <<1>>
    /\ selectedFileB = <<0>>
    /\ \A w \in {"A", "B", "tie"} :
          \E k \in DOMAIN metricComparisons : metricComparisons[k].winner = w

\* the last semantics call among the calls made, <<>> when there is none
RECURSIVE LastSemanticsCall(_)
LastSemanticsCall(cs) ==
    IF cs = <<>> THEN <<>>
    ELSE IF cs[Len(cs)].analyzer = "semantics" THEN <<cs[Len(cs)]>>
    ELSE LastSemanticsCall(SubSeq(cs, 1, Len(cs) - 1))

ESA_resultSkipping(pcode, skipped) ==
    LET lines == split(pcode)
        issues == Flatten([i \in DOMAIN ESA_Analyses |->
                      IF ESA_Analyses[i] \in skipped THEN <<>>
                      ELSE ESA_AnalysisIssues(ESA_Analyses[i], lines)])
    IN  [issues |-> issues,
         metrics |-> calculateSemanticMetrics(pcode, issues),
         summary |-> generateSemanticSummary(issues)]

\* C19: when one rule check throws during a call, the call still returns
\* an AnalysisResult, made of the issues of all the other rule checks in
\* their order; the call is not aborted.
C19_ThrowingRuleSkipped ==
    \A i \in DOMAIN calls :
        calls[i].thrown # "none" =>
            /\ analyzed = calls[i].analyzer
            /\ result =
                 IF calls[i].analyzer = "code"
                 THEN RCA_analyzeCodeCompletion_CatchPerRule(
                          calls[i].text, {calls[i].thrown}).value
                 ELSE ESA_resultSkipping(calls[i].text, {calls[i].thrown})

\* the pass of analyzeCode (its place in the argument list, 1..8) that
\* creates issues with this rule name
RCA_PassOfRule(rule) ==
    CASE rule = "react/jsx-key" -> 1
      [] rule \in {"no-empty", "line-length/max-length"} -> 5
      [] rule = "semantic-structure/component-size" -> 6
      [] rule \in {"syntax/bracket-matching", "conditional-syntax/assignment",
                   "syntax/semicolons", "syntax/code-structure",
                   "syntax/unclosed-brackets"} -> 7
      [] rule \in {"operators/strict-equality", "operators/chained-comparison",
                   "operators/assignment-in-conditional", "operators/complex-logical",
                   "operators/bitwise", "symbols/nullish-coalescing",
                   "symbols/optional-property", "symbols/type-assertion",
                   "symbols/semicolon", "symbols/nested-ternary"} -> 8

ScannedLine ==
    IF scan.at = "scanning" /\ scan.lineIndex < Len(split(code))
    THEN split(code)[scan.lineIndex + 1] ELSE <<>>

ScannedChar ==
    IF scan.charIndex < Len(ScannedLine) THEN ScannedLine[scan.charIndex + 1] ELSE ""

TrackedBrackets == {"(", ")", "[", "]", "{", "}"}

\* C22: a bracket inside a quoted string or inside a comment neither
\* changes the stack nor produces an issue, and a bracket outside any
\* string or comment, also one that follows a closed string or a closed
\* /* ... */ comment on the same line, is pushed or popped as the brackets
\* of code are.
C22_BracketsOfCodeOnly ==
    [][ (ScanChar /\ ScannedChar \in TrackedBrackets) =>
            LET st == CharStep_Lexed([stack |-> scan.stack, issues |-> scan.issues],
                                     split(code), scan.lineIndex, scan.charIndex)
            IN  scan'.stack = st.stack /\ scan'.issues = st.issues ]_vars

\* the quotes q among the first `index` characters that no backslash precedes
UnescapedQuotes(line, index, q) ==
    Cardinality({i \in 1..index :
        line[i] = q /\ (i = 1 \/ line[i - 1] # "\\")})

\* inside a string when only unescaped quotes are counted
InsideStringUnescaped(line, index) ==
    \E q \in {"'", "\"", Backtick} : UnescapedQuotes(line, index, q) % 2 = 1

\* C23: only unescaped quotes decide whether a position is inside a string,
\* so a bracket that follows a string literal holding an escaped quote (and
\* that is in no comment) is validated: it is pushed, popped or reported.
C23_EscapedQuotesNotCounted ==
    [][ ( /\ ScanChar
          /\ ScannedChar \in TrackedBrackets
          /\ ~InsideStringUnescaped(ScannedLine, scan.charIndex)
          /\ ~isInsideComment(ScannedLine, scan.charIndex) )
        => (scan'.stack # scan.stack \/ scan'.issues # scan.issues) ]_vars

\* the bracket of the step is one the scan tracks: in no string and in no
\* comment as isInsideString and isInsideComment see them
TrackedStep(chars) ==
    /\ ScanChar
    /\ ScannedChar \in chars
    /\ ~isInsideString(ScannedLine, scan.charIndex)
    /\ ~isInsideComment(ScannedLine, scan.charIndex)

\* the closer that closes an opener
CloserOf(open) ==
    CASE open = "(" -> ")" [] open = "[" -> "]" [] open = "{" -> "}"

AllButLast(q) == SubSeq(q, 1, Len(q) - 1)

\* the issues whose id starts with the prefix
IdsWith(issues, prefix) ==
    SelectSeq(issues, LAMBDA issue : issue.id.text[1] = prefix)

\* the tracked brackets of the lines before lineIndex and of the first
\* charIndex characters of line lineIndex (both 0-based)
RECURSIVE TrackedBefore(_, _, _)
TrackedBefore(lines, lineIndex, charIndex) ==
    IF lineIndex >= Len(lines) THEN
        IF lineIndex = 0 THEN <<>>
        ELSE TrackedBefore(lines, lineIndex - 1, Len(lines[lineIndex]))
    ELSE IF charIndex = 0 THEN
        IF lineIndex = 0 THEN <<>>
        ELSE TrackedBefore(lines, lineIndex - 1, Len(lines[lineIndex]))
    ELSE LET line == lines[lineIndex + 1]
             c == line[charIndex]
             rest == TrackedBefore(lines, lineIndex, charIndex - 1)
         IN  IF /\ c \in TrackedBrackets
                /\ ~isInsideString(line, charIndex - 1)
                /\ ~isInsideComment(line, charIndex - 1)
             THEN Append(rest, c) ELSE rest

\* openers minus the closers seen with a non-empty stack
RECURSIVE OpenDepth(_)
OpenDepth(brackets) ==
    IF brackets = <<>> THEN 0
    ELSE LET before == OpenDepth(AllButLast(brackets))
         IN  IF brackets[Len(brackets)] \in {"(", "[", "{"} THEN before + 1
             ELSE IF before > 0 THEN before - 1 ELSE 0

\* C24: every tracked closing bracket is handled in exactly one way.  With
\* an empty stack: one unmatched-close issue at the closer's position, and
\* the stack stays empty.  With an opener on top that it does not close:
\* one mismatched issue, and that one opener is removed.  With the opener
\* it closes on top: no issue, and that one opener is removed.  So the
\* stack holds as many openers as were pushed minus the closers seen with a
\* non-empty stack, and at the end there is one unclosed issue for each.
C24_CloserHandledOnce ==
    /\ [][ TrackedStep({")", "]", "}"}) =>
             IF scan.stack = <<>> THEN
                 /\ scan'.stack = <<>>
                 /\ Len(scan'.issues) = Len(scan.issues) + 1
                 /\ AllButLast(scan'.issues) = scan.issues
                 /\ LET issue == scan'.issues[Len(scan'.issues)]
                    IN  /\ issue.id.text[1] = "unmatched-"
                        /\ issue.line = scan.lineIndex + 1
                        /\ issue.column = scan.charIndex + 1
             ELSE
                 /\ scan'.stack = AllButLast(scan.stack)
                 /\ IF CloserOf(scan.stack[Len(scan.stack)].symbol) = ScannedChar
                    THEN scan'.issues = scan.issues
                    ELSE /\ Len(scan'.issues) = Len(scan.issues) + 1
                         /\ AllButLast(scan'.issues) = scan.issues
                         /\ scan'.issues[Len(scan'.issues)].id.text[1] = "mismatched-" ]_vars
    /\ [](scan.at \in {"scanning", "done"} =>
             Len(scan.stack) = OpenDepth(TrackedBefore(split(code), scan.lineIndex,
                                                       scan.charIndex)))
    /\ [](scan.at = "done" =>
             Len(IdsWith(scan.issues, "unclosed-")) = Len(scan.stack))

\* "(", "(" pushed; "]" removes one opener with a mismatched issue; ")"
\* closes the other; the last ")" finds the stack empty
C24_Witness ==
    /\ code = <<"(", "(", "]", ")", ")">>
    /\ scan.at = "done"
    /\ Len(scan.issues) = 2
    /\ scan.issues[1].id.text[1] = "mismatched-" /\ scan.issues[1].column = 3
    /\ scan.issues[2].id.text[1] = "unmatched-" /\ scan.issues[2].column = 5
    /\ scan.stack = <<>>

\* the issues of a category, whichever way the category is capitalized
InCategory(issues, category) ==
    Len(SelectSeq(issues,
        LAMBDA issue : issue.category \in {category, Capitalize(category)}))

\* C25: in the metrics of analyzeSemantics, maintainability is
\* max(1, 10 - the maintainability issues of the same result) and
\* performance is max(1, 10 - its performance issues).
C25_ScoresCountCategoryIssues ==
    analyzed = "semantics" =>
        /\ result.metrics.maintainability
               = Max(1, 10 - InCategory(result.issues, "maintainability"))
        /\ result.metrics.performance
               = Max(1, 10 - InCategory(result.issues, "performance"))

\* combineMetrics over every pair of metrics records with values in 1..10
\* (the four fields of a record set to the same value)
CombinedInRange ==
    \A a, b \in 1..10 :
        LET blended == combineMetrics(
                [complexity |-> a, maintainability |-> a, testability |-> a, performance |-> a],
                [complexity |-> b, maintainability |-> b, testability |-> b, performance |-> b])
        IN  \A m \in CoreMetricNames : blended[m] \in 1..10

\* C26: the four metrics the analyzer of CodeAnalyzer.tsx returns are
\* integers in 1..10 for every text, the syntax metrics and the React
\* metrics they are blended from being in 1..10 themselves.
C26_CombinedMetricsInRange ==
    analyzed = "combined" =>
        /\ DOMAIN result.metrics = CoreMetricNames
        /\ \A m \in CoreMetricNames : result.metrics[m] \in 1..10
        /\ CombinedInRange

\* nine syntax errors or more: syntax testability 1 blended with React
\* testability 6 gives 4, and maintainability is at its floor
C26_Witness ==
    /\ analyzed = "combined"
    /\ CountType(result.issues, "error") >= 9
    /\ result.metrics.testability = 4
    /\ result.metrics.maintainability = 1

(***************************************************************************)
(* components/CodeAnalyzer.tsx: properties of the component                *)
(***************************************************************************)

\* the step in which handleFileUpload finds no file with an accepted extension
NoAcceptedFile ==
    \E files \in Batches :
        /\ SelectSeq(files, isValidFile) = <<>>
        /\ BrowseFiles(files) \/ DropFiles(files)

\* the step in which reading a file of a batch fails
ReadFailure == \E i \in 1..MaxPending : ReadFails(i)

\* the last notification shown is an error
ErrorShown(shown) == shown # <<>> /\ shown[Len(shown)].type = "error"

\* an upload batch or a manual analysis has started and not yet finished
AnalysisInProgress(ops) ==
    \E i \in 1..Len(ops) : ops[i].op \in {"upload", "analyze"}

C28_SelectedIndexValid ==
    \/ selectedFileIndex = -1
    \/ 0 <= selectedFileIndex /\ selectedFileIndex < Len(analyzedFiles)

\* C29: isAnalyzing is true whenever a manual analysis or an upload batch has
\* started and not yet finished, overlapping ones included.
C29_AnalyzingWhileInProgress ==
    AnalysisInProgress(pending) => isAnalyzing

\* C30: the complexity score of the breakdown of generateSemanticScore is at
\* most 95, the cyclomatic complexity being at least 1, and so the overall
\* score is at most 99 and never 100; the grade A+ is reached all the same,
\* the empty text scoring 99.
C30_ScoreBelowHundred ==
    /\ generateSemanticScore(<<>>).overallScore = 99
    /\ generateSemanticScore(<<>>).grade = "A+"
    /\ analyzed = "score" =>
          /\ calculateCyclomaticComplexity(scoring.lines) >= 1
          /\ result.breakdown.complexity <= 95
          /\ result.overallScore <= 99
          /\ result.overallScore # 100

\* no issue and no branching line: the highest score there is, graded A+
C30_Witness ==
    /\ analyzed = "score"
    /\ scoring.issues = <<>>
    /\ result.breakdown.complexity = 95
    /\ result.overallScore = 99
    /\ result.grade = "A+"

====
